---------------------------- MODULE Spec2Model ----------------------------
(***************************************************************************)
(* A model of the text-patch engine of otter_code                          *)
(* (src/src/otter_code/tools/code_editing.py): the fuzzy block replacer,   *)
(* the exact replace-all, the unified-diff applier and the line            *)
(* primitives, each acting on one file.                                    *)
(*                                                                         *)
(* Text is a sequence of one-character strings.  Offsets are Python's:     *)
(* 0-based, half-open.  The file is what is on disk; what an operation     *)
(* sees is ReadText(file), Python's text-mode read, which translates       *)
(* "\r\n" and "\r" to "\n".                                                *)
(***************************************************************************)
EXTENDS Integers, Sequences, FiniteSets, TLC

VARIABLES
    file,           \* the characters of the target file on disk
    log,            \* the calls completed so far, oldest first
    pc,             \* "idle", or "hunks" while apply_diff walks its hunks
    diff,           \* apply_diff: the diff text it was called with
    before,         \* apply_diff: the file when the call began
    lines,          \* apply_diff: the lines read from the file
    hunks,          \* apply_diff: the hunks parsed from the diff
    todo,           \* apply_diff: the hunks still to apply, next one first
    new_lines,      \* apply_diff: the mutating line buffer
    applied_count,  \* apply_diff: the hunks applied so far
    applied,        \* history: the _apply_hunk calls made, in order, each
                    \* with its hunk, the buffer it got and the one it gave
    config,         \* config._config: the global ToolConfig, or NoConfig
    files,          \* the file system: the content of the file at each
                    \* resolved path that holds a file
    procs,          \* the concurrent callers of the edit operations
    agent,          \* Agent.forward: its locals and the calls it made
    shell           \* the shell tools' module state and the backends

vars == <<file, log, pc, diff, before, lines, hunks, todo, new_lines,
          applied_count, applied, config, files, procs, agent, shell>>

\* the state beyond the one file of the single-file specifications
sysvars == <<config, files, procs, agent, shell>>

\* the state of the callers, the agent and the shell tools
restvars == <<procs, agent, shell>>

diffvars == <<diff, before, lines, hunks, todo, new_lines, applied_count,
              applied>>

----------------------------------------------------------------------------
(* Bounds of the model.                                                    *)

\* the longest file, in characters, of the character-level specifications
MaxText == 3
\* the longest search, replacement or inserted text, in characters
MaxArg == 2
\* the most lines of a file handed to apply_diff
MaxLines == 2
\* the most lines of a diff
MaxDiffLines == 4
\* the longest list of ops of a hunk handed to _apply_hunk on its own
MaxOps == 3

----------------------------------------------------------------------------
(* Python's str and list primitives.                                       *)

NL == "\n"
CR == "\r"
FF == "\f"

\* the characters str.splitlines() breaks a line after
LineBreaks == {NL, CR, FF}

\* all sequences over S of length at most n
SeqsUpTo(S, n) == UNION {[1..k -> S] : k \in 0..n}

Min(a, b) == IF a < b THEN a ELSE b
Max(a, b) == IF a > b THEN a ELSE b

\* s[lo:hi] for a str or a list, with Python's treatment of negative and
\* out-of-range indices
PySlice(s, lo, hi) ==
    LET n == Len(s)
        l == IF lo < 0 THEN Max(n + lo, 0) ELSE Min(lo, n)
        h == IF hi < 0 THEN Max(n + hi, 0) ELSE Min(hi, n)
    IN  SubSeq(s, l + 1, h)

\* s[lo:]
PySliceFrom(s, lo) == PySlice(s, lo, Len(s))

\* s[:hi]
PySliceTo(s, hi) == PySlice(s, 0, hi)

\* pattern occurs in text at 0-based offset i
OccursAt(text, pattern, i) ==
    /\ i >= 0
    /\ i + Len(pattern) <= Len(text)
    /\ SubSeq(text, i + 1, i + Len(pattern)) = pattern

\* text.find(pattern, start): the lowest offset >= start, or -1
FindFrom(text, pattern, start) ==
    IF \E i \in start..Len(text) : OccursAt(text, pattern, i)
    THEN CHOOSE i \in start..Len(text) :
            /\ OccursAt(text, pattern, i)
            /\ \A j \in start..(i - 1) : ~OccursAt(text, pattern, j)
    ELSE -1

\* text.find(pattern)
Find(text, pattern) == FindFrom(text, pattern, 0)

\* text.count(s): non-overlapping occurrences, scanning left to right; the
\* empty string is counted before every character and at the end
RECURSIVE CountFrom(_, _, _)
CountFrom(text, s, start) ==
    IF s = <<>> THEN Len(text) - start + 1
    ELSE LET p == FindFrom(text, s, start)
         IN  IF p = -1 THEN 0 ELSE 1 + CountFrom(text, s, p + Len(s))

Count(text, s) == CountFrom(text, s, 0)

\* text.replace(s, r): every non-overlapping occurrence, left to right; an
\* empty s puts r before every character and at the end
RECURSIVE ReplaceFrom(_, _, _, _)
ReplaceFrom(text, s, r, start) ==
    IF s = <<>>
    THEN IF start >= Len(text) THEN r
         ELSE r \o <<text[start + 1]>> \o ReplaceFrom(text, s, r, start + 1)
    ELSE LET p == FindFrom(text, s, start)
         IN  IF p = -1 THEN PySliceFrom(text, start)
             ELSE PySlice(text, start, p) \o r
                      \o ReplaceFrom(text, s, r, p + Len(s))

Replace(text, s, r) == ReplaceFrom(text, s, r, 0)

\* the length of the first line of a non-empty text, terminator included
FirstLineLen(text) ==
    LET brk == {i \in 1..Len(text) : text[i] \in LineBreaks}
    IN  IF brk = {} THEN Len(text)
        ELSE LET i == CHOOSE k \in brk : \A m \in brk : k <= m
             IN  IF text[i] = CR /\ i < Len(text) /\ text[i + 1] = NL
                 THEN i + 1 ELSE i

\* text.splitlines(keepends=True)
RECURSIVE SplitLines(_)
SplitLines(text) ==
    IF text = <<>> THEN <<>>
    ELSE LET k == FirstLineLen(text)
         IN  <<SubSeq(text, 1, k)>> \o SplitLines(SubSeq(text, k + 1, Len(text)))

\* "".join(parts)
RECURSIVE Join(_)
Join(parts) == IF parts = <<>> THEN <<>> ELSE Head(parts) \o Join(Tail(parts))

\* s.endswith("\n")
EndsWithNL(s) == s # <<>> /\ s[Len(s)] = NL

\* Path.read_text(): text mode with universal newlines, "\r\n" and "\r" are
\* read as "\n"
RECURSIVE ReadText(_)
ReadText(bytes) ==
    IF bytes = <<>> THEN <<>>
    ELSE IF Head(bytes) = CR
         THEN IF Len(bytes) > 1 /\ bytes[2] = NL
              THEN <<NL>> \o ReadText(SubSeq(bytes, 3, Len(bytes)))
              ELSE <<NL>> \o ReadText(Tail(bytes))
         ELSE <<Head(bytes)>> \o ReadText(Tail(bytes))

\* Path.write_text() on a POSIX system: "\n" is written as os.linesep, "\n"
WriteText(text) == text


----------------------------------------------------------------------------
(* FuzzyMatcher.  The matcher's two calls into the diff-match-patch        *)
(* library, match_main and diff_main + diff_cleanupSemantic, are calls out *)
(* of the program: the model takes their results as inputs, any result the *)
(* library's contract allows.                                              *)

\* find_match's "None"
None == <<>>

\* the values dmp.match_main(text, pattern, loc) can return when the pattern
\* does not occur verbatim: -1, or an offset into the text.  The threshold,
\* the distance and loc only narrow this set.
MatchMainReturns(text, pattern, loc, matcher) ==
    {-1} \cup 0..(Len(text) - 1)

\* the diffs of a against b: every sequence of <<op, data>> with op 0
\* (equal), 1 (insert) or -1 (delete) and non-empty data, no two neighbours
\* with the same op, whose equal and delete data spell a and whose equal and
\* insert data spell b
RECURSIVE DiffsAfter(_, _, _)
DiffsAfter(a, b, last) ==
    IF a = <<>> /\ b = <<>> THEN {<<>>}
    ELSE LET eq == {k \in 1..Min(Len(a), Len(b)) :
                        last # 0 /\ SubSeq(a, 1, k) = SubSeq(b, 1, k)}
             de == {k \in 1..Len(a) : last # -1}
             ad == {k \in 1..Len(b) : last # 1}
         IN  UNION ({ {<< <<0, SubSeq(a, 1, k)>> >> \o d :
                          d \in DiffsAfter(SubSeq(a, k + 1, Len(a)),
                                           SubSeq(b, k + 1, Len(b)), 0)} :
                      k \in eq }
               \cup { {<< <<-1, SubSeq(a, 1, k)>> >> \o d :
                          d \in DiffsAfter(SubSeq(a, k + 1, Len(a)), b, -1)} :
                      k \in de }
               \cup { {<< <<1, SubSeq(b, 1, k)>> >> \o d :
                          d \in DiffsAfter(a, SubSeq(b, k + 1, Len(b)), 1)} :
                      k \in ad })

\* the results of dmp.diff_main(a, b) followed by diff_cleanupSemantic
DiffMainReturns(a, b) == DiffsAfter(a, b, 2)

\* the end of the match taken as start + len(pattern), without the diffs
MatchEndByPatternLength(diffs, patlen, match_end, pattern_consumed) ==
    match_end + patlen

\* the loop of find_match over the diffs: the end of the match in the text
RECURSIVE MatchEnd(_, _, _, _)
MatchEnd(diffs, patlen, match_end, pattern_consumed) ==
    IF diffs = <<>> \/ pattern_consumed >= patlen THEN match_end
    ELSE LET op == Head(diffs)[1]
             n  == Len(Head(diffs)[2])
         IN  IF op = 0
             THEN MatchEnd(Tail(diffs), patlen, match_end + n, pattern_consumed + n)
             ELSE IF op = 1
             THEN MatchEnd(Tail(diffs), patlen, match_end + n, pattern_consumed)
             ELSE MatchEnd(Tail(diffs), patlen, match_end, pattern_consumed + n)

\* what the library can answer to find_match(text, pattern, loc): the return
\* of match_main and, when that is an offset, the cleaned-up diff of the
\* pattern against text[match_start:][:len(pattern) * 2]
LibraryAnswers(text, pattern, loc, matcher) ==
    UNION { IF m = -1 THEN {[match_start |-> -1, diffs |-> <<>>]}
            ELSE {[match_start |-> m, diffs |-> d] :
                    d \in DiffMainReturns(pattern,
                            PySliceTo(PySliceFrom(text, m), Len(pattern) * 2))} :
            m \in MatchMainReturns(text, pattern, loc, matcher) }

\* the library's answers matter only when find_match reaches the library
UsesLibrary(text, pattern) == pattern # <<>> /\ Find(text, pattern) = -1

\* find_match without its exact-match shortcut: every non-empty pattern goes
\* to the library
FindMatchFuzzyFirst(text, pattern, lib) ==
    IF pattern = <<>> THEN [span |-> None, path |-> "empty"]
    ELSE IF lib.match_start = -1
    THEN [span |-> None, path |-> "fuzzy"]
    ELSE [span |-> <<lib.match_start,
                     MatchEnd(lib.diffs, Len(pattern), lib.match_start, 0)>>,
          path |-> "fuzzy"]

\* find_match without its guard against the empty pattern, which
\* text.find("") then finds at offset 0
FindMatchNoEmptyGuard(text, pattern, lib) ==
    LET exact_pos == Find(text, pattern)
    IN  IF exact_pos # -1
        THEN [span |-> <<exact_pos, exact_pos + Len(pattern)>>,
              path |-> "exact"]
        ELSE IF lib.match_start = -1
        THEN [span |-> None, path |-> "fuzzy"]
        ELSE [span |-> <<lib.match_start,
                         MatchEnd(lib.diffs, Len(pattern), lib.match_start, 0)>>,
              path |-> "fuzzy"]

\* FuzzyMatcher.find_match: the span found, or None, and the path taken
FindMatch(text, pattern, lib) ==
    IF pattern = <<>> THEN [span |-> None, path |-> "empty"]
    ELSE LET exact_pos == Find(text, pattern)
         IN  IF exact_pos # -1
             THEN [span |-> <<exact_pos, exact_pos + Len(pattern)>>,
                   path |-> "exact"]
             ELSE IF lib.match_start = -1
             THEN [span |-> None, path |-> "fuzzy"]
             ELSE [span |-> <<lib.match_start,
                              MatchEnd(lib.diffs, Len(pattern),
                                       lib.match_start, 0)>>,
                   path |-> "fuzzy"]

\* apply_replacement replacing every verbatim occurrence instead of the
\* one match
ApplyReplacementEveryMatch(text, search, replace, lib) ==
    IF FindMatch(text, search, lib).span = None THEN <<text, FALSE>>
    ELSE <<Replace(text, search, replace), TRUE>>

\* FuzzyMatcher.apply_replacement: (new text, found)
ApplyReplacement(text, search, replace, lib) ==
    LET match == FindMatch(text, search, lib).span
    IN  IF match = None THEN <<text, FALSE>>
        ELSE <<PySliceTo(text, match[1]) \o replace \o PySliceFrom(text, match[2]),
               TRUE>>

----------------------------------------------------------------------------
(* The state before any call, and the inputs of the matcher.               *)

\* match_threshold, in tenths
DEFAULT_MATCH_THRESHOLD == 4
DEFAULT_MATCH_DISTANCE == 1000

DefaultMatcher == [match_threshold |-> DEFAULT_MATCH_THRESHOLD,
                   match_distance  |-> DEFAULT_MATCH_DISTANCE]

\* the matcher settings tried: exact only, the default and match-anything,
\* each with no distance and the default distance
Matchers == [match_threshold : {0, DEFAULT_MATCH_THRESHOLD, 10},
             match_distance  : {0, DEFAULT_MATCH_DISTANCE}]

\* the characters of the files and of the arguments of the matcher
SearchFileChars == {"a", "b", CR}
SearchArgChars == {"a", "b"}
ReplaceChars == {"a"}

\* no configuration set
NoConfig == <<>>

\* no file system in play: the single-file specifications act on file
\* no concurrent callers, no agent run, no shell tools in play
IdleRest ==
    /\ procs = <<>>
    /\ agent = <<>>
    /\ shell = <<>>

IdleSys ==
    /\ config = NoConfig
    /\ files = <<>>
    /\ IdleRest

IdleDiff ==
    /\ diff = <<>>
    /\ before = <<>>
    /\ lines = <<>>
    /\ hunks = <<>>
    /\ todo = <<>>
    /\ new_lines = <<>>
    /\ applied_count = 0
    /\ applied = <<>>

InitSearch ==
    /\ file \in SeqsUpTo(SearchFileChars, MaxText)
    /\ log = <<>>
    /\ pc = "idle"
    /\ IdleDiff
    /\ IdleSys

\* the library's answers offered to one call: none is consumed on the paths
\* that never reach the library
AnswersFor(text, pattern, loc, matcher) ==
    IF UsesLibrary(text, pattern)
    THEN LibraryAnswers(text, pattern, loc, matcher)
    ELSE {[match_start |-> -1, diffs |-> <<>>]}

\* a call of FuzzyMatcher(match_threshold, match_distance).find_match on the
\* characters of the file
FindMatchCall ==
    /\ pc = "idle" /\ log = <<>>
    /\ \E pattern \in SeqsUpTo(SearchArgChars, MaxArg),
          loc \in {0, MaxText}, matcher \in Matchers :
         \E lib \in AnswersFor(file, pattern, loc, matcher) :
            log' = <<[op |-> "find_match", text |-> file, pattern |-> pattern,
                      expected_location |-> loc, matcher |-> matcher,
                      lib_start |-> lib.match_start,
                      ret |-> FindMatch(file, pattern, lib)]>>
    /\ UNCHANGED <<file, pc, diffvars, sysvars>>

\* a call of FuzzyMatcher().apply_replacement on the characters of the file
ApplyReplacementCall ==
    /\ pc = "idle" /\ log = <<>>
    /\ \E search \in SeqsUpTo(SearchArgChars, MaxArg),
          replace \in SeqsUpTo(ReplaceChars, MaxArg),
          loc \in {0, MaxText} :
         \E lib \in AnswersFor(file, search, loc, DefaultMatcher) :
            LET r == ApplyReplacement(file, search, replace, lib)
            IN  log' = <<[op |-> "apply_replacement", text |-> file,
                          pattern |-> search, replace |-> replace,
                          expected_location |-> loc,
                          lib_start |-> lib.match_start,
                          match |-> FindMatch(file, search, lib).span,
                          new_text |-> r[1], found |-> r[2]]>>
    /\ UNCHANGED <<file, pc, diffvars, sysvars>>

\* search_replace(file_path, search, replace) on the file
SearchReplace ==
    /\ pc = "idle" /\ log = <<>>
    /\ \E search \in SeqsUpTo(SearchArgChars, MaxArg),
          replace \in SeqsUpTo(ReplaceChars, MaxArg) :
         LET content == ReadText(file)
         IN  \E lib \in AnswersFor(content, search, 0, DefaultMatcher) :
                LET r == ApplyReplacement(content, search, replace, lib)
                    rec == [op |-> "search_replace", text |-> content,
                            pattern |-> search, replace |-> replace,
                            lib_start |-> lib.match_start,
                            match |-> FindMatch(content, search, lib).span,
                            new_text |-> r[1], found |-> r[2],
                            before |-> file]
                IN  IF ~r[2]
                    THEN /\ log' = <<rec @@ [status |-> "ValueError",
                                            written |-> FALSE]>>
                         /\ file' = file
                    ELSE /\ file' = WriteText(r[1])
                         /\ log' = <<rec @@ [status |-> "ok", written |-> TRUE]>>
    /\ UNCHANGED <<pc, diffvars, sysvars>>

NextSearch == FindMatchCall \/ ApplyReplacementCall \/ SearchReplace

SpecSearch == InitSearch /\ [][NextSearch]_vars

----------------------------------------------------------------------------
(* Claims about the matcher and the block replacer, under SpecSearch.      *)

\* the calls of the log made to one of the operations in ops
Calls(ops) == {i \in DOMAIN log : log[i].op \in ops}

\* p is the offset of the first verbatim occurrence of pattern in text
FirstOccurrence(text, pattern, p) ==
    /\ OccursAt(text, pattern, p)
    /\ \A j \in 0..(p - 1) : ~OccursAt(text, pattern, j)

\* C1: exact match precedence.  Whenever a non-empty pattern occurs verbatim
\* in the text, find_match returns (p, p + len(pattern)) for the offset p of
\* the first occurrence and does not take the fuzzy path, whatever the
\* threshold, the distance and the expected location.
C1_ExactMatchPrecedence ==
    \A i \in Calls({"find_match"}) :
        LET c == log[i]
        IN  (c.pattern # <<>> /\ \E p \in 0..Len(c.text) :
                                    OccursAt(c.text, c.pattern, p))
            => /\ \E p \in 0..Len(c.text) :
                     /\ FirstOccurrence(c.text, c.pattern, p)
                     /\ c.ret.span = <<p, p + Len(c.pattern)>>
               /\ c.ret.path = "exact"

\* C1 witness: a pattern occurring twice, looked up with a non-default
\* threshold, no distance and an expected location past the first occurrence
C1_Witness ==
    \E i \in Calls({"find_match"}) :
        LET c == log[i]
        IN  /\ c.pattern # <<>>
            /\ Cardinality({p \in 0..Len(c.text) :
                              OccursAt(c.text, c.pattern, p)}) >= 2
            /\ c.matcher.match_threshold = 10
            /\ c.matcher.match_distance = 0
            /\ c.expected_location > 0
            /\ c.ret.span # None

\* the search text of call c was not found: it is empty, or it does not
\* occur verbatim and the library reports no fuzzy candidate
NotFound(c) ==
    \/ c.pattern = <<>>
    \/ /\ \A p \in 0..Len(c.text) : ~OccursAt(c.text, c.pattern, p)
       /\ c.lib_start = -1

\* C9: when the search text is not found (also for every empty pattern),
\* find_match returns None, apply_replacement returns (text, False) with the
\* text it was given, and search_replace raises ValueError and does not
\* write the file.
C9_NotFoundLeavesTextAlone ==
    /\ \A i \in Calls({"find_match"}) :
          NotFound(log[i]) => log[i].ret.span = None
    /\ \A i \in Calls({"apply_replacement"}) :
          NotFound(log[i]) => /\ log[i].found = FALSE
                              /\ log[i].new_text = log[i].text
    /\ \A i \in Calls({"search_replace"}) :
          NotFound(log[i]) => /\ log[i].status = "ValueError"
                              /\ log[i].written = FALSE
                              /\ file = log[i].before

\* C9 witness: a search_replace of a non-empty text that is not in the file
\* and has no fuzzy candidate has raised
C9_Witness ==
    \E i \in Calls({"search_replace"}) :
        /\ log[i].pattern # <<>>
        /\ log[i].text # <<>>
        /\ NotFound(log[i])
        /\ log[i].status = "ValueError"

\* C9 witness for the empty pattern
C9_WitnessEmptyPattern ==
    \E i \in Calls({"apply_replacement"}) :
        /\ log[i].pattern = <<>>
        /\ log[i].text # <<>>
        /\ log[i].found = FALSE

\* C10: when a match (start, end) is found, apply_replacement returns
\* text[:start] + replace + text[end:] and found = True: the text before start
\* and the text from end on are unchanged, so every verbatim occurrence after
\* the first is still there.
C10_OnlyTheMatchIsReplaced ==
    \A i \in Calls({"apply_replacement", "search_replace"}) :
        LET c == log[i]
            start == c.match[1]
            end == c.match[2]
            shift == Len(c.replace) - (end - start)
        IN  c.match # None =>
              /\ c.found = TRUE
              /\ Len(c.new_text) = Len(c.text) + shift
              /\ \A k \in 1..start : c.new_text[k] = c.text[k]
              /\ \A k \in 1..Len(c.replace) : c.new_text[start + k] = c.replace[k]
              /\ \A k \in (end + 1)..Len(c.text) : c.new_text[k + shift] = c.text[k]
              /\ \A q \in end..Len(c.text) :
                    OccursAt(c.text, c.pattern, q)
                        => OccursAt(c.new_text, c.pattern, q + shift)
              /\ (c.op = "search_replace" => file = WriteText(c.new_text))

\* C10 witness: the search text occurs verbatim twice, the first occurrence
\* was replaced by a different text and the second is still in the result
C10_Witness ==
    \E i \in Calls({"apply_replacement"}) :
        LET c == log[i]
        IN  /\ c.found
            /\ c.replace # c.pattern
            /\ \E q \in c.match[2]..Len(c.text) : OccursAt(c.text, c.pattern, q)
            /\ c.new_text # c.text

\* the span of call c, whichever operation made it
SpanOf(c) == IF c.op = "find_match" THEN c.ret.span ELSE c.match

\* call c went to the library and the library named a candidate
FuzzyHit(c) ==
    /\ c.pattern # <<>>
    /\ ~(\E p \in 0..Len(c.text) : OccursAt(c.text, c.pattern, p))
    /\ c.lib_start # -1

\* C11: MatchSpan invariant.  Every span (start, end) that find_match
\* returns, on the exact path and on the fuzzy path where the end comes from
\* the diff of the pattern against the text at the candidate, satisfies
\* 0 <= start <= end <= len(text); on the fuzzy path start is the library's
\* candidate.
C11_MatchSpanInvariant ==
    \A i \in Calls({"find_match", "apply_replacement", "search_replace"}) :
        LET c == log[i]
            span == SpanOf(c)
        IN  /\ span # None =>
                /\ 0 <= span[1]
                /\ span[1] <= span[2]
                /\ span[2] <= Len(c.text)
            /\ FuzzyHit(c) => (span # None /\ span[1] = c.lib_start)

\* C11 witness: a fuzzy match at the last character of the text, whose span
\* is shorter than the pattern
C11_Witness ==
    \E i \in Calls({"find_match"}) :
        LET c == log[i]
        IN  /\ FuzzyHit(c)
            /\ c.ret.path = "fuzzy"
            /\ c.ret.span[1] = Len(c.text) - 1
            /\ c.ret.span[2] = Len(c.text)
            /\ c.ret.span[2] - c.ret.span[1] < Len(c.pattern)

\* C11 witness: a fuzzy match whose span is longer than the pattern
C11_WitnessLonger ==
    \E i \in Calls({"find_match"}) :
        LET c == log[i]
        IN  /\ FuzzyHit(c)
            /\ c.ret.span[2] - c.ret.span[1] > Len(c.pattern)

----------------------------------------------------------------------------
(* search_replace_all.                                                     *)

\* the characters of the files and of the arguments of search_replace_all
ReplaceAllChars == {"a", "b", "A", CR}

InitReplaceAll ==
    /\ file \in SeqsUpTo(ReplaceAllChars, MaxText)
    /\ log = <<>>
    /\ pc = "idle"
    /\ IdleDiff
    /\ IdleSys

\* content.replace(search, replace) stopping after the first occurrence
ReplaceFirstOnly(content, search, replace) ==
    LET p == Find(content, search)
    IN  IF p = -1 THEN content
        ELSE PySliceTo(content, p) \o replace \o PySliceFrom(content, p + Len(search))

\* the new content search_replace_all computes from the content it read
ReplaceAllContent(content, search, replace) == Replace(content, search, replace)

\* search_replace_all(file_path, search, replace) on the file
SearchReplaceAll(search, replace) ==
    /\ pc = "idle"
    /\ LET content == ReadText(file)
           count == Count(content, search)
           rec == [op |-> "search_replace_all", search |-> search,
                   replace |-> replace, before |-> file, content |-> content,
                   count |-> count]
       IN  IF count = 0
           THEN /\ log' = Append(log, rec @@ [status |-> "ValueError",
                                              after |-> file])
                /\ file' = file
           ELSE LET new_content == ReplaceAllContent(content, search, replace)
                IN  /\ file' = WriteText(new_content)
                    /\ log' = Append(log, rec @@ [status |-> "ok",
                                                  after |-> WriteText(new_content)])
    /\ UNCHANGED <<pc, diffvars, sysvars>>

\* a first call, with any arguments
ReplaceAllAny ==
    /\ log = <<>>
    /\ \E search \in SeqsUpTo(ReplaceAllChars, MaxArg),
          replace \in SeqsUpTo(ReplaceAllChars, MaxArg) :
         SearchReplaceAll(search, replace)

\* after a call that replaced s by r, the call that replaces r by s
ReplaceAllBack ==
    /\ Len(log) = 1
    /\ log[1].op = "search_replace_all"
    /\ log[1].status = "ok"
    /\ SearchReplaceAll(log[1].replace, log[1].search)

NextReplaceAll == ReplaceAllAny \/ ReplaceAllBack

SpecReplaceAll == InitReplaceAll /\ [][NextReplaceAll]_vars

\* s occurs in text, as Python's "s in text"
OccursIn(text, s) == \E p \in 0..Len(text) : OccursAt(text, s, p)

\* the occurrences of s in text, overlapping ones included
Occurrences(text, s) == {p \in 0..Len(text) : OccursAt(text, s, p)}

\* a search_replace_all(c, s, r) that succeeded was followed by
\* search_replace_all(result, r, s)
RoundTripReplaceAll ==
    /\ Len(log) = 2
    /\ log[1].op = "search_replace_all" /\ log[2].op = "search_replace_all"
    /\ log[2].search = log[1].replace /\ log[2].replace = log[1].search

\* C8 as claimed: for every content c and strings s, r such that s occurs in
\* c and s does not occur inside r, search_replace_all(c, s, r) followed by
\* search_replace_all(result, r, s) restores c.
C8_RoundTripAsClaimed ==
    (/\ RoundTripReplaceAll
     /\ OccursIn(log[1].before, log[1].search)
     /\ ~OccursIn(log[1].replace, log[1].search))
    => file = log[1].before

\* C8 amended: ... restores c provided, besides, that neither c nor r holds
\* a carriage return, that r is not empty, and that r occurs in the result
\* only where it was put: the result holds exactly as many occurrences of r,
\* overlapping ones counted, as occurrences of s were replaced.
C8_RoundTripAmended ==
    (/\ RoundTripReplaceAll
     /\ OccursIn(log[1].before, log[1].search)
     /\ ~OccursIn(log[1].replace, log[1].search)
     /\ CR \notin {log[1].before[k] : k \in DOMAIN log[1].before}
     /\ CR \notin {log[1].replace[k] : k \in DOMAIN log[1].replace}
     /\ log[1].replace # <<>>
     /\ Cardinality(Occurrences(log[1].after, log[1].replace)) = log[1].count)
    => /\ log[2].status = "ok"
       /\ file = log[1].before

\* C8 witness: a round trip that replaced two occurrences and restored the
\* content, under the conditions of the amended claim
C8_Witness ==
    /\ RoundTripReplaceAll
    /\ ~OccursIn(log[1].replace, log[1].search)
    /\ CR \notin {log[1].before[k] : k \in DOMAIN log[1].before}
    /\ log[1].replace # <<>>
    /\ Cardinality(Occurrences(log[1].after, log[1].replace)) = log[1].count
    /\ log[1].count = 2
    /\ log[1].after # log[1].before
    /\ log[2].status = "ok"
    /\ file = log[1].before

\* P is the set of offsets of the occurrences of s in text that a scan from
\* left to right meets, each scan resuming where the occurrence before ends:
\* an occurrence is in P exactly when no earlier member of P overlaps it
LeftToRight(text, s, P) ==
    \A p \in 0..Len(text) :
        p \in P <=> /\ OccursAt(text, s, p)
                    /\ \A q \in P : q < p => q + Len(s) <= p

\* new is text with the occurrence of s at every offset of P replaced by r
ReplacedAt(text, s, r, P, new) ==
    LET d == Len(r) - Len(s)
        Before(o) == Cardinality({q \in P : q < o})
        UpTo(o) == Cardinality({q \in P : q <= o})
        Covered(o) == \E q \in P : q <= o /\ o < q + Len(s)
    IN  /\ Len(new) = Len(text) + Cardinality(P) * d
        /\ \A q \in P : OccursAt(new, r, q + Before(q) * d)
        /\ \A o \in 0..(Len(text) - 1) :
              ~Covered(o) => new[o + UpTo(o) * d + 1] = text[o + 1]

\* C12: search_replace_all replaces, letter for letter and case-sensitively,
\* every occurrence of the search text met by a scan from left to right that
\* skips over each occurrence it replaces, and reports their number; when
\* there is none it raises ValueError and leaves the file as it was.
C12_ReplaceAllLiteral ==
    \A i \in Calls({"search_replace_all"}) :
        LET c == log[i]
        IN  \E P \in SUBSET Occurrences(c.content, c.search) :
              /\ LeftToRight(c.content, c.search, P)
              /\ c.count = Cardinality(P)
              /\ IF P = {}
                 THEN c.status = "ValueError" /\ c.after = c.before
                 ELSE /\ c.status = "ok"
                      /\ ReplacedAt(c.content, c.search, c.replace, P, c.after)
              /\ (i = Len(log) => file = c.after)

\* C12 witness: of two overlapping occurrences only the first is replaced
C12_Witness ==
    \E i \in Calls({"search_replace_all"}) :
        LET c == log[i]
        IN  /\ c.status = "ok"
            /\ Len(c.search) = 2
            /\ Cardinality(Occurrences(c.content, c.search)) = 2
            /\ c.count = 1
            /\ c.replace # c.search
            /\ file = c.after

\* C12 witness: two occurrences apart from each other are both replaced
C12_WitnessTwo ==
    \E i \in Calls({"search_replace_all"}) :
        LET c == log[i]
        IN  /\ c.status = "ok"
            /\ c.search # <<>>
            /\ c.count = 2
            /\ Len(c.replace) = 2
            /\ c.after # c.content

\* C12 witness: a search text that differs from a part of the content only
\* by the case of a letter is not found
C12_WitnessCase ==
    \E i \in Calls({"search_replace_all"}) :
        /\ log[i].status = "ValueError"
        /\ log[i].search = <<"A">>
        /\ OccursIn(log[i].content, <<"a">>)
        /\ file = log[i].before

----------------------------------------------------------------------------
(* insert_at_line and delete_lines.                                        *)

\* the characters of the files and of the inserted text
LineFileChars == {"a", NL, CR, FF}
LineArgChars == {"a", NL, CR, FF}

\* the line numbers tried: from below 1 to past the end of the longest file
LineNumbers == (0 - 1)..(MaxText + 1)

InitLines ==
    /\ file \in SeqsUpTo(LineFileChars, MaxText)
    /\ log = <<>>
    /\ pc = "idle"
    /\ IdleDiff
    /\ IdleSys

\* the inserted text taken as it is given
ContentAsGiven(content) == content

\* insert_at_line's normalisation of the inserted text
EnsureNewline(content) ==
    IF content # <<>> /\ ~EndsWithNL(content) THEN content \o <<NL>> ELSE content

\* the placement with the splice one line late: after line line_number
\* instead of before it
InsertLinesAfter(flines, content_lines, line_number) ==
    IF line_number <= 0 THEN content_lines \o flines
    ELSE IF line_number > Len(flines)
    THEN (IF flines # <<>> /\ ~EndsWithNL(flines[Len(flines)])
          THEN [flines EXCEPT ![Len(flines)] = @ \o <<NL>>]
          ELSE flines) \o content_lines
    ELSE PySliceTo(flines, line_number) \o content_lines
             \o PySliceFrom(flines, line_number)

\* insert_at_line's placement of content_lines among the file's lines
InsertLines(flines, content_lines, line_number) ==
    IF line_number <= 0 THEN content_lines \o flines
    ELSE IF line_number > Len(flines)
    THEN (IF flines # <<>> /\ ~EndsWithNL(flines[Len(flines)])
          THEN [flines EXCEPT ![Len(flines)] = @ \o <<NL>>]
          ELSE flines) \o content_lines
    ELSE LET idx == line_number - 1
         IN  PySliceTo(flines, idx) \o content_lines \o PySliceFrom(flines, idx)

\* insert_at_line(file_path, line_number, content) on the file
InsertAtLine(line_number, content) ==
    /\ pc = "idle"
    /\ LET flines == SplitLines(ReadText(file))
           content_lines == SplitLines(EnsureNewline(content))
           new_content == Join(InsertLines(flines, content_lines, line_number))
       IN  /\ file' = WriteText(new_content)
           /\ log' = Append(log, [op |-> "insert_at_line",
                                  line_number |-> line_number,
                                  content |-> content, before |-> file,
                                  nlines |-> Len(flines), status |-> "ok",
                                  count |-> Len(content_lines),
                                  after |-> WriteText(new_content)])
    /\ UNCHANGED <<pc, diffvars, sysvars>>

\* the deletion starting one line late: del lines[start_line:end_line]
DeleteRangeFromNext(flines, start_line, end_line) ==
    PySliceTo(flines, start_line) \o PySliceFrom(flines, Max(start_line, end_line))

\* del lines[start_line - 1:end_line]
DeleteRange(flines, start_line, end_line) ==
    PySliceTo(flines, start_line - 1) \o PySliceFrom(flines, end_line)

\* delete_lines without its check of start_line against the end of the file
DeleteLinesUnchecked(start_line, end_line) ==
    /\ pc = "idle"
    /\ LET flines == SplitLines(ReadText(file))
           rec == [op |-> "delete_lines", start_line |-> start_line,
                   end_line |-> end_line, before |-> file,
                   nlines |-> Len(flines)]
       IN  IF start_line < 1 \/ end_line < start_line
           THEN /\ file' = file
                /\ log' = Append(log, rec @@ [status |-> "ValueError",
                                              count |-> 0, after |-> file])
           ELSE LET end == Min(end_line, Len(flines))
                    new_content == Join(PySliceTo(flines, start_line - 1)
                                            \o PySliceFrom(flines, end))
                IN  /\ file' = WriteText(new_content)
                    /\ log' = Append(log, rec @@ [status |-> "ok",
                                                  count |-> end - start_line + 1,
                                                  after |-> WriteText(new_content)])
    /\ UNCHANGED <<pc, diffvars, sysvars>>

\* delete_lines(file_path, start_line, end_line) on the file
DeleteLines(start_line, end_line) ==
    /\ pc = "idle"
    /\ LET flines == SplitLines(ReadText(file))
           rec == [op |-> "delete_lines", start_line |-> start_line,
                   end_line |-> end_line, before |-> file,
                   nlines |-> Len(flines)]
       IN  IF start_line < 1 \/ end_line < start_line \/ start_line > Len(flines)
           THEN /\ file' = file
                /\ log' = Append(log, rec @@ [status |-> "ValueError",
                                              count |-> 0, after |-> file])
           ELSE LET end == Min(end_line, Len(flines))
                    new_content == Join(DeleteRange(flines, start_line, end))
                IN  /\ file' = WriteText(new_content)
                    /\ log' = Append(log, rec @@ [status |-> "ok",
                                                  count |-> end - start_line + 1,
                                                  after |-> WriteText(new_content)])
    /\ UNCHANGED <<pc, diffvars, sysvars>>

\* a first call of insert_at_line, with any arguments
InsertAny ==
    /\ log = <<>>
    /\ \E line_number \in LineNumbers, content \in SeqsUpTo(LineArgChars, MaxArg) :
         InsertAtLine(line_number, content)

\* a first call of delete_lines, with any arguments
DeleteAny ==
    /\ log = <<>>
    /\ \E start_line \in LineNumbers, end_line \in LineNumbers :
         DeleteLines(start_line, end_line)

\* the line at which insert_at_line call c put its first line
InsertionLine(c) ==
    IF c.line_number <= 0 THEN 1
    ELSE IF c.line_number > c.nlines THEN c.nlines + 1
    ELSE c.line_number

\* after an insert_at_line of k >= 1 lines, the delete_lines over the k lines
\* starting at the insertion line
DeleteInserted ==
    /\ Len(log) = 1
    /\ log[1].op = "insert_at_line"
    /\ log[1].count >= 1
    /\ DeleteLines(InsertionLine(log[1]), InsertionLine(log[1]) + log[1].count - 1)

NextLines == InsertAny \/ DeleteAny \/ DeleteInserted

SpecLines == InitLines /\ [][NextLines]_vars

\* an insert_at_line of k >= 1 lines was followed by the delete_lines over
\* the range the inserted lines occupy
RoundTripLines ==
    /\ Len(log) = 2
    /\ log[1].op = "insert_at_line" /\ log[1].count >= 1
    /\ log[2].op = "delete_lines"
    /\ log[2].start_line = InsertionLine(log[1])
    /\ log[2].end_line = InsertionLine(log[1]) + log[1].count - 1

\* C7 as claimed: for every file content, line_number and inserted text of
\* k >= 1 lines, insert_at_line followed by delete_lines over the k lines
\* starting at the insertion line yields the original content.
C7_RoundTripAsClaimed ==
    RoundTripLines => file = log[1].before

\* text holds no carriage return
NoCR(text) == \A k \in DOMAIN text : text[k] # CR

\* C7 amended: ... yields the original content provided the file holds no
\* carriage return and, when line_number is greater than the number of lines
\* (the text is appended), the file is empty or ends with "\n".
C7_RoundTripAmended ==
    (/\ RoundTripLines
     /\ NoCR(log[1].before)
     /\ (log[1].line_number > log[1].nlines
            => (log[1].before = <<>> \/ EndsWithNL(log[1].before))))
    => /\ log[2].status = "ok"
       /\ log[2].count = log[1].count
       /\ file = log[1].before

\* C7 witness: two lines spliced before the second line of a file whose last
\* line has no terminator, then deleted again
C7_Witness ==
    /\ RoundTripLines
    /\ NoCR(log[1].before)
    /\ log[1].count = 2
    /\ log[1].line_number = 2
    /\ log[1].nlines = 2
    /\ ~EndsWithNL(log[1].before)
    /\ log[2].status = "ok"
    /\ file = log[1].before

\* C7 witness of the appending case
C7_WitnessAppend ==
    /\ RoundTripLines
    /\ log[1].line_number > log[1].nlines
    /\ log[1].nlines >= 1
    /\ EndsWithNL(log[1].before)
    /\ file = log[1].before

\* the lines of the file as call c read them
LinesRead(c) == SplitLines(ReadText(c.before))

\* C14: delete_lines raises ValueError whenever start_line < 1, or
\* end_line < start_line, or start_line is greater than the number of lines
\* of the file, and the file then holds what it held.
C14_DeleteLinesRejectsBadRange ==
    \A i \in Calls({"delete_lines"}) :
        LET c == log[i]
            n == Len(LinesRead(c))
        IN  (c.start_line < 1 \/ c.end_line < c.start_line \/ c.start_line > n)
            => /\ c.status = "ValueError"
               /\ c.after = c.before
               /\ (i = Len(log) => file = c.before)

\* C14 witness: a range that is well formed but starts past the last line of
\* a file of two lines was refused
C14_Witness ==
    \E i \in Calls({"delete_lines"}) :
        LET c == log[i]
        IN  /\ Len(LinesRead(c)) = 2
            /\ c.start_line = 3
            /\ c.end_line >= c.start_line
            /\ c.status = "ValueError"
            /\ file = c.before

\* C14 witness: a range whose end is before its start, inside the file
C14_WitnessBackwards ==
    \E i \in Calls({"delete_lines"}) :
        LET c == log[i]
        IN  /\ c.start_line = 2 /\ c.end_line = 1
            /\ Len(LinesRead(c)) >= 2
            /\ c.status = "ValueError"
            /\ file = c.before

\* C15: for a valid range (1 <= start_line <= end_line, start_line <= n, n
\* the number of lines), delete_lines writes lines[0 : start_line-1] followed
\* by lines[min(end_line, n) :] and reports min(end_line, n) - start_line + 1
\* deleted lines, the number of lines the file lost.
C15_DeleteLinesClampsAndCounts ==
    \A i \in Calls({"delete_lines"}) :
        LET c == log[i]
            L == LinesRead(c)
            n == Len(L)
            e == IF c.end_line < n THEN c.end_line ELSE n
        IN  (1 <= c.start_line /\ c.start_line <= c.end_line /\ c.start_line <= n)
            => /\ c.status = "ok"
               /\ c.after = WriteText(Join(SubSeq(L, 1, c.start_line - 1)
                                              \o SubSeq(L, e + 1, n)))
               /\ c.count = e - c.start_line + 1
               /\ Len(SplitLines(ReadText(c.after))) = n - c.count
               /\ (i = Len(log) => file = c.after)

\* C15 witness: a range from the second line to past the end of a file of
\* three lines was clamped: two lines deleted, the first kept
C15_Witness ==
    \E i \in Calls({"delete_lines"}) :
        LET c == log[i]
        IN  /\ Len(LinesRead(c)) = 3
            /\ c.start_line = 2
            /\ c.end_line > 3
            /\ c.status = "ok"
            /\ c.count = 2
            /\ Len(SplitLines(ReadText(c.after))) = 1
            /\ file = c.after

\* the inserted text with "\n" added when it is not empty and does not end
\* with "\n"
Normalized(content) ==
    IF content # <<>> /\ content[Len(content)] # NL
    THEN content \o <<NL>> ELSE content

\* C16: insert_at_line placement.  With n the number of lines of the file
\* and k the number of inserted lines: for line_number <= 0 the inserted
\* lines are the first k lines of the result and the file's lines follow;
\* for line_number > n they are the last k lines and the file's lines come
\* before them; for 1 <= line_number <= n they are lines line_number to
\* line_number + k - 1, after the file's first line_number - 1 lines and
\* before its others.  The file's lines keep their order and none is lost
\* (the last one may have gained its "\n" when the text is appended).
C16_InsertPlacement ==
    \A i \in Calls({"insert_at_line"}) :
        LET c == log[i]
            L == LinesRead(c)
            n == Len(L)
            K == SplitLines(Normalized(c.content))
            k == Len(K)
            A == SplitLines(c.after)
            m == Len(A)
        IN  /\ c.status = "ok"
            /\ (i = Len(log) => file = c.after)
            /\ m >= n + k
            /\ c.line_number <= 0 =>
                  /\ SubSeq(A, 1, k) = K
                  /\ SubSeq(A, k + 1, m) = L
            /\ (1 <= c.line_number /\ c.line_number <= n) =>
                  /\ SubSeq(A, 1, c.line_number - 1) = SubSeq(L, 1, c.line_number - 1)
                  /\ SubSeq(A, c.line_number, c.line_number + k - 1) = K
                  /\ SubSeq(A, c.line_number + k, m) = SubSeq(L, c.line_number, n)
            /\ c.line_number > n =>
                  /\ SubSeq(A, m - k + 1, m) = K
                  /\ SubSeq(A, 1, n - 1) = SubSeq(L, 1, n - 1)
                  /\ Join(SubSeq(A, 1, m - k))
                        \in {Join(L), Join(L) \o <<NL>>}

\* C16 witness: two lines spliced before the second of three lines
C16_Witness ==
    \E i \in Calls({"insert_at_line"}) :
        LET c == log[i]
            A == SplitLines(c.after)
        IN  /\ Len(LinesRead(c)) = 3
            /\ c.line_number = 2
            /\ c.count = 2
            /\ Len(A) = 5
            /\ A[1] = LinesRead(c)[1]
            /\ A[4] = LinesRead(c)[2]
            /\ A[5] = LinesRead(c)[3]

\* C16 witness: a line put before a file of two lines by line_number 0
C16_WitnessPrepend ==
    \E i \in Calls({"insert_at_line"}) :
        LET c == log[i]
        IN  /\ c.line_number = 0
            /\ c.count = 1
            /\ Len(LinesRead(c)) = 2
            /\ SubSeq(SplitLines(c.after), 2, 3) = LinesRead(c)

\* C16 witness: a line put after a file of two lines by a line_number past
\* its end
C16_WitnessAppend ==
    \E i \in Calls({"insert_at_line"}) :
        LET c == log[i]
        IN  /\ c.line_number > 2
            /\ c.count = 1
            /\ Len(LinesRead(c)) = 2
            /\ SubSeq(SplitLines(c.after), 1, 2) = LinesRead(c)

\* the text is appended to a file that is not empty and does not end with
\* "\n"
AppendsToOpenLine(c) ==
    /\ c.line_number > Len(LinesRead(c))
    /\ ReadText(c.before) # <<>>
    /\ ~EndsWithNL(ReadText(c.before))

\* the number of characters of the result before the inserted text
InsertOffset(c) ==
    LET L == LinesRead(c)
        p == IF c.line_number <= 0 THEN 0
             ELSE IF c.line_number > Len(L) THEN Len(L)
             ELSE c.line_number - 1
    IN  Len(Join(SubSeq(L, 1, p))) + (IF AppendsToOpenLine(c) THEN 1 ELSE 0)

\* C17: insert_at_line terminator handling.  An inserted text that is not
\* empty and does not end with "\n" is written with "\n" after it; when the
\* text is appended to a file whose last line has no "\n", the result is the
\* file, "\n", and the normalised text; the count reported is the number of
\* lines of the normalised text; nothing else is added.
C17_InsertTerminators ==
    \A i \in Calls({"insert_at_line"}) :
        LET c == log[i]
            T == Normalized(c.content)
        IN  /\ (c.content # <<>> /\ c.content[Len(c.content)] # NL)
                  => OccursAt(c.after, c.content \o <<NL>>, InsertOffset(c))
            /\ OccursAt(c.after, T, InsertOffset(c))
            /\ AppendsToOpenLine(c)
                  => c.after = ReadText(c.before) \o <<NL>> \o T
            /\ c.count = Len(SplitLines(T))
            /\ Len(c.after) = Len(ReadText(c.before)) + Len(T)
                                + (IF AppendsToOpenLine(c) THEN 1 ELSE 0)

\* C17 witness: a text without "\n" appended to a file whose last line has
\* none: both got one
C17_Witness ==
    \E i \in Calls({"insert_at_line"}) :
        LET c == log[i]
        IN  /\ AppendsToOpenLine(c)
            /\ c.content = <<"a", "a">>
            /\ c.before = <<"a", NL, "a">>
            /\ c.after = <<"a", NL, "a", NL, "a", "a", NL>>
            /\ c.count = 1

\* C17 witness: a text ending with a form feed is counted as two lines
C17_WitnessFormFeed ==
    \E i \in Calls({"insert_at_line"}) :
        LET c == log[i]
        IN  /\ c.content = <<"a", FF>>
            /\ c.count = 2

----------------------------------------------------------------------------
(* _parse_unified_diff.  A hunk is a record whose field ops is the hunk's  *)
(* 'lines' list of (operation, content) pairs.                             *)

Digits == <<"0", "1", "2", "3", "4", "5", "6", "7", "8", "9">>

IsDigit(c) == \E d \in DOMAIN Digits : Digits[d] = c

DigitValue(c) == (CHOOSE d \in DOMAIN Digits : Digits[d] = c) - 1

\* the character at 1-based position i of line, "" past its end
At(line, i) == IF i \in DOMAIN line THEN line[i] ELSE ""

\* the number of digits of line from position i on: what \d+ consumes
RECURSIVE DigitRun(_, _)
DigitRun(line, i) ==
    IF IsDigit(At(line, i)) THEN 1 + DigitRun(line, i + 1) ELSE 0

\* int() of the n digits of line from position i on
RECURSIVE IntAt(_, _, _)
IntAt(line, i, n) ==
    IF n = 0 THEN 0
    ELSE IntAt(line, i, n - 1) * 10 + DigitValue(line[i + n - 1])

\* line.startswith(prefix)
StartsWith(line, prefix) == OccursAt(line, prefix, 0)

\* the header match with an omitted count taken as 0
ParseHeaderCountZero(line) ==
    LET n1 == DigitRun(line, 5)
        p1 == 5 + n1
        c1 == At(line, p1) = "," /\ DigitRun(line, p1 + 1) >= 1
        n2 == IF c1 THEN DigitRun(line, p1 + 1) ELSE 0
        p2 == IF c1 THEN p1 + 1 + n2 ELSE p1
        n3 == DigitRun(line, p2 + 2)
        p3 == p2 + 2 + n3
        c3 == At(line, p3) = "," /\ DigitRun(line, p3 + 1) >= 1
        n4 == IF c3 THEN DigitRun(line, p3 + 1) ELSE 0
        p4 == IF c3 THEN p3 + 1 + n4 ELSE p3
        ok == /\ StartsWith(line, <<"@", "@", " ", "-">>)
              /\ n1 >= 1
              /\ At(line, p2) = " " /\ At(line, p2 + 1) = "+"
              /\ n3 >= 1
              /\ At(line, p4) = " " /\ At(line, p4 + 1) = "@"
              /\ At(line, p4 + 2) = "@"
    IN  IF ~ok THEN [match |-> FALSE]
        ELSE [match |-> TRUE,
              hunk |-> [old_start |-> IntAt(line, 5, n1),
                        old_count |-> IF c1 THEN IntAt(line, p1 + 1, n2) ELSE 0,
                        new_start |-> IntAt(line, p2 + 2, n3),
                        new_count |-> IF c3 THEN IntAt(line, p3 + 1, n4) ELSE 0,
                        ops |-> <<>>]]

\* hunk_header_pattern.match(line) for the pattern
\* ^@@ -(\d+)(?:,(\d+))? \+(\d+)(?:,(\d+))? @@ : whether it matches, and
\* the hunk it opens, an omitted count being 1
ParseHeader(line) ==
    LET n1 == DigitRun(line, 5)
        p1 == 5 + n1
        c1 == At(line, p1) = "," /\ DigitRun(line, p1 + 1) >= 1
        n2 == IF c1 THEN DigitRun(line, p1 + 1) ELSE 0
        p2 == IF c1 THEN p1 + 1 + n2 ELSE p1
        n3 == DigitRun(line, p2 + 2)
        p3 == p2 + 2 + n3
        c3 == At(line, p3) = "," /\ DigitRun(line, p3 + 1) >= 1
        n4 == IF c3 THEN DigitRun(line, p3 + 1) ELSE 0
        p4 == IF c3 THEN p3 + 1 + n4 ELSE p3
        ok == /\ StartsWith(line, <<"@", "@", " ", "-">>)
              /\ n1 >= 1
              /\ At(line, p2) = " " /\ At(line, p2 + 1) = "+"
              /\ n3 >= 1
              /\ At(line, p4) = " " /\ At(line, p4 + 1) = "@"
              /\ At(line, p4 + 2) = "@"
    IN  IF ~ok THEN [match |-> FALSE]
        ELSE [match |-> TRUE,
              hunk |-> [old_start |-> IntAt(line, 5, n1),
                        old_count |-> IF c1 THEN IntAt(line, p1 + 1, n2) ELSE 1,
                        new_start |-> IntAt(line, p2 + 2, n3),
                        new_count |-> IF c3 THEN IntAt(line, p3 + 1, n4) ELSE 1,
                        ops |-> <<>>]]

\* the ops of a body line with every line of another leading character
\* taken as context
BodyOpsKeepsOthers(line) ==
    IF StartsWith(line, <<"-">>) THEN << <<"delete", Tail(line)>> >>
    ELSE IF StartsWith(line, <<"+">>) THEN << <<"add", Tail(line)>> >>
    ELSE IF StartsWith(line, <<" ">>) THEN << <<"context", Tail(line)>> >>
    ELSE << <<"context", line>> >>

\* the ops a body line adds to the current hunk
BodyOps(line) ==
    IF StartsWith(line, <<"-">>) THEN << <<"delete", Tail(line)>> >>
    ELSE IF StartsWith(line, <<"+">>) THEN << <<"add", Tail(line)>> >>
    ELSE IF StartsWith(line, <<" ">>) THEN << <<"context", Tail(line)>> >>
    ELSE IF line = <<NL>> THEN << <<"context", line>> >>
    ELSE <<>>

\* the loop skipping the "---", "+++", "diff " and "index " lines only
\* before the first header
RECURSIVE ParseLinesSkipOnlyBefore(_, _, _)
ParseLinesSkipOnlyBefore(dlines, done, cur) ==
    IF dlines = <<>> THEN done \o cur
    ELSE LET line == Head(dlines)
             h == ParseHeader(line)
         IN  IF h.match
             THEN ParseLinesSkipOnlyBefore(Tail(dlines), done \o cur, <<h.hunk>>)
             ELSE IF cur = <<>>
             THEN ParseLinesSkipOnlyBefore(Tail(dlines), done, cur)
             ELSE ParseLinesSkipOnlyBefore(Tail(dlines), done,
                             <<[cur[1] EXCEPT !.ops = @ \o BodyOps(line)]>>)

\* the loop of _parse_unified_diff over the lines of the diff: done are the
\* hunks closed so far, cur is <<>> for current_hunk = None and else holds
\* the current hunk
RECURSIVE ParseLines(_, _, _)
ParseLines(dlines, done, cur) ==
    IF dlines = <<>> THEN done \o cur
    ELSE LET line == Head(dlines)
             h == ParseHeader(line)
         IN  IF h.match
             THEN ParseLines(Tail(dlines), done \o cur, <<h.hunk>>)
             ELSE IF \/ StartsWith(line, <<"-", "-", "-">>)
                     \/ StartsWith(line, <<"+", "+", "+">>)
                     \/ StartsWith(line, <<"d", "i", "f", "f", " ">>)
                     \/ StartsWith(line, <<"i", "n", "d", "e", "x", " ">>)
                     \/ cur = <<>>
             THEN ParseLines(Tail(dlines), done, cur)
             ELSE ParseLines(Tail(dlines), done,
                             <<[cur[1] EXCEPT !.ops = @ \o BodyOps(line)]>>)

\* _parse_unified_diff(diff)
ParseUnifiedDiff(d) == ParseLines(SplitLines(d), <<>>, <<>>)

----------------------------------------------------------------------------
(* _apply_hunk.                                                            *)

\* the walk with a delete op that leaves the read cursor where it is
RECURSIVE HunkWalkDeleteStays(_, _, _, _)
HunkWalkDeleteStays(ls, ops, result, line_idx) ==
    IF ops = <<>>
    THEN [raised |-> "", result |-> result \o PySliceFrom(ls, line_idx)]
    ELSE LET op == Head(ops)[1]
             content == Head(ops)[2]
         IN  IF op = "context"
             THEN IF line_idx < Len(ls)
                  THEN IF line_idx < 0 /\ Len(ls) + line_idx < 0
                       THEN [raised |-> "IndexError", result |-> <<>>]
                       ELSE HunkWalkDeleteStays(ls, Tail(ops),
                                Append(result,
                                       ls[(IF line_idx < 0 THEN Len(ls) + line_idx
                                           ELSE line_idx) + 1]),
                                line_idx + 1)
                  ELSE HunkWalkDeleteStays(ls, Tail(ops), Append(result, content),
                                           line_idx)
             ELSE IF op = "delete"
             THEN HunkWalkDeleteStays(ls, Tail(ops), result, line_idx)
             ELSE HunkWalkDeleteStays(ls, Tail(ops),
                      Append(result, IF EndsWithNL(content) THEN content
                                     ELSE content \o <<NL>>),
                      line_idx)

\* the walk of _apply_hunk over the ops, from the result and the read cursor
\* line_idx reached so far.  lines[line_idx] with a negative line_idx indexes
\* from the end and raises IndexError on an empty list.
RECURSIVE HunkWalk(_, _, _, _)
HunkWalk(ls, ops, result, line_idx) ==
    IF ops = <<>>
    THEN [raised |-> "", result |-> result \o PySliceFrom(ls, line_idx)]
    ELSE LET op == Head(ops)[1]
             content == Head(ops)[2]
         IN  IF op = "context"
             THEN IF line_idx < Len(ls)
                  THEN IF line_idx < 0 /\ Len(ls) + line_idx < 0
                       THEN [raised |-> "IndexError", result |-> <<>>]
                       ELSE HunkWalk(ls, Tail(ops),
                                Append(result,
                                       ls[(IF line_idx < 0 THEN Len(ls) + line_idx
                                           ELSE line_idx) + 1]),
                                line_idx + 1)
                  ELSE HunkWalk(ls, Tail(ops), Append(result, content), line_idx)
             ELSE IF op = "delete"
             THEN HunkWalk(ls, Tail(ops), result, line_idx + 1)
             ELSE HunkWalk(ls, Tail(ops),
                      Append(result, IF EndsWithNL(content) THEN content
                                     ELSE content \o <<NL>>),
                      line_idx)

\* _apply_hunk(lines, hunk): the new lines, or the exception raised
ApplyHunk(ls, hunk) ==
    LET hunk_start == hunk.old_start - 1
    IN  HunkWalk(ls, hunk.ops, PySliceTo(ls, hunk_start), hunk_start)

----------------------------------------------------------------------------
(* apply_diff, one step per _apply_hunk call.                              *)

\* the lines of the files handed to apply_diff
DiffFileLines == {<<"a", NL>>, <<"b", NL>>}

\* the files: up to MaxLines lines, the last one with or without its "\n"
DiffFiles ==
    LET whole == {Join(ls) : ls \in SeqsUpTo(DiffFileLines, MaxLines)}
    IN  whole \cup {SubSeq(f, 1, Len(f) - 1) : f \in whole \ {<<>>}}

\* the header "@@ -k +k @@" of a hunk at line k
HeaderLine(k) ==
    <<"@", "@", " ", "-", Digits[k + 1], " ", "+", Digits[k + 1], " ",
      "@", "@", NL>>

\* a line that only looks like a header: its closing "@@" is cut short
NearHeaderLine ==
    <<"@", "@", " ", "-", "1", " ", "+", "1", " ", "@", NL>>

\* the lines a diff is made of: a header for every old_start from 0 to one
\* past the longest file, a delete, an add and a context line, and a line
\* that is neither a header nor a body line
DiffLineChoices ==
    {HeaderLine(k) : k \in 0..(MaxLines + 1)}
        \cup {<<"-", "a", NL>>, <<"+", "c", NL>>, <<" ", "a", NL>>}
        \cup {NearHeaderLine}

DiffTexts == {Join(ls) : ls \in SeqsUpTo(DiffLineChoices, MaxDiffLines)}

InitDiff ==
    /\ file \in DiffFiles
    /\ log = <<>>
    /\ pc = "idle"
    /\ IdleDiff
    /\ IdleSys

\* s reversed
RECURSIVE Reverse(_)
Reverse(s) == IF s = <<>> THEN <<>> ELSE Reverse(Tail(s)) \o <<Head(s)>>

\* the order of the diff text itself
DiffTextOrder(hs) == hs

\* the order in which apply_diff hands the parsed hunks to _apply_hunk:
\* reversed(hunks)
ApplicationOrder(hs) == Reverse(hs)

\* the record of a finished apply_diff call
DiffRecord(status, count, after) ==
    [op |-> "apply_diff", diff |-> diff', before |-> before', lines |-> lines',
     hunks |-> hunks', steps |-> applied', status |-> status, count |-> count,
     after |-> after]

\* apply_diff up to its loop without the check for an empty hunk list
ApplyDiffStartUnchecked ==
    /\ pc = "idle" /\ log = <<>>
    /\ \E d \in DiffTexts :
         /\ diff' = d
         /\ before' = file
         /\ lines' = SplitLines(ReadText(file))
         /\ hunks' = ParseUnifiedDiff(d)
         /\ todo' = ApplicationOrder(hunks')
         /\ new_lines' = lines'
         /\ applied_count' = 0
         /\ applied' = <<>>
         /\ pc' = "hunks"
         /\ log' = log
    /\ file' = file
    /\ UNCHANGED sysvars

\* apply_diff(file_path, diff) up to its loop: read the file, parse the diff,
\* raise ValueError when there is no hunk
ApplyDiffStart ==
    /\ pc = "idle" /\ log = <<>>
    /\ \E d \in DiffTexts :
         /\ diff' = d
         /\ before' = file
         /\ lines' = SplitLines(ReadText(file))
         /\ hunks' = ParseUnifiedDiff(d)
         /\ todo' = ApplicationOrder(hunks')
         /\ new_lines' = lines'
         /\ applied_count' = 0
         /\ applied' = <<>>
         /\ IF hunks' = <<>>
            THEN /\ pc' = "idle"
                 /\ log' = Append(log, DiffRecord("ValueError", 0, file))
            ELSE /\ pc' = "hunks"
                 /\ log' = log
    /\ file' = file
    /\ UNCHANGED sysvars

\* one turn of the loop with the write moved into it
ApplyDiffHunkWriting ==
    /\ pc = "hunks" /\ todo # <<>>
    /\ LET r == ApplyHunk(new_lines, Head(todo))
       IN  /\ r.raised = ""
           /\ new_lines' = r.result
           /\ applied_count' = applied_count + 1
           /\ applied' = Append(applied, [hunk |-> Head(todo),
                                          lines_in |-> new_lines,
                                          lines_out |-> r.result])
           /\ todo' = Tail(todo)
           /\ file' = WriteText(Join(r.result))
           /\ UNCHANGED <<pc, log, diff, before, lines, hunks, sysvars>>

\* one turn of the loop of apply_diff: _apply_hunk on the buffer; only a
\* ValueError is caught, any other exception leaves apply_diff as it is
ApplyDiffHunk ==
    /\ pc = "hunks" /\ todo # <<>>
    /\ LET r == ApplyHunk(new_lines, Head(todo))
       IN  IF r.raised # ""
           THEN /\ UNCHANGED <<file, diffvars, sysvars>>
                /\ pc' = "idle"
                /\ log' = Append(log, DiffRecord(r.raised, applied_count, file))
           ELSE /\ new_lines' = r.result
                /\ applied_count' = applied_count + 1
                /\ applied' = Append(applied, [hunk |-> Head(todo),
                                               lines_in |-> new_lines,
                                               lines_out |-> r.result])
                /\ todo' = Tail(todo)
                /\ UNCHANGED <<file, pc, log, diff, before, lines, hunks,
                              sysvars>>

\* apply_diff after its loop: join the buffer, write the file, report
ApplyDiffWrite ==
    /\ pc = "hunks" /\ todo = <<>>
    /\ UNCHANGED <<diffvars, sysvars>>
    /\ file' = WriteText(Join(new_lines))
    /\ pc' = "idle"
    /\ log' = Append(log, DiffRecord("ok", applied_count, file'))

NextDiff == ApplyDiffStart \/ ApplyDiffHunk \/ ApplyDiffWrite

SpecDiff == InitDiff /\ [][NextDiff]_vars

----------------------------------------------------------------------------
(* _apply_hunk called on its own, on the lines of a file.                  *)

\* the ops of the hunks tried: a context, a delete, an add, and an add whose
\* text has no "\n" (the last line of a diff text that does not end with one)
HunkOpChoices ==
    { <<"context", <<"a", NL>> >>, <<"delete", <<"a", NL>> >>,
      <<"add", <<"c", NL>> >>, <<"add", <<"c">> >> }

\* the hunks tried: every old_start from 0 to one past the longest file
HunkInputs ==
    { [old_start |-> k, old_count |-> 1, new_start |-> k, new_count |-> 1,
       ops |-> ops] :
         k \in 0..(MaxLines + 1), ops \in SeqsUpTo(HunkOpChoices, MaxOps) }

\* a call of _apply_hunk(lines, hunk) on the lines of the file
ApplyHunkCall ==
    /\ pc = "idle" /\ log = <<>>
    /\ \E hunk \in HunkInputs :
         LET ls == SplitLines(ReadText(file))
             r == ApplyHunk(ls, hunk)
         IN  log' = <<[op |-> "_apply_hunk", lines |-> ls, hunk |-> hunk,
                       raised |-> r.raised, result |-> r.result]>>
    /\ UNCHANGED <<file, pc, diffvars, sysvars>>

NextHunk == ApplyHunkCall

SpecHunk == InitDiff /\ [][NextHunk]_vars

----------------------------------------------------------------------------
(* _parse_unified_diff called on its own.                                  *)

\* a count left out of a header
Omitted == 0 - 1

\* the decimal digits of k, for k below 100
Dec(k) ==
    IF k < 10 THEN <<Digits[k + 1]>>
    ELSE <<Digits[(k \div 10) + 1], Digits[(k % 10) + 1]>>

\* the header "@@ -a[,b] +c[,d] @@" of the form f = <<a, b, c, d>>
HeaderText(f) ==
    <<"@", "@", " ", "-">> \o Dec(f[1])
        \o (IF f[2] = Omitted THEN <<>> ELSE <<",">> \o Dec(f[2]))
        \o <<" ", "+">> \o Dec(f[3])
        \o (IF f[4] = Omitted THEN <<>> ELSE <<",">> \o Dec(f[4]))
        \o <<" ", "@", "@">>

\* the headers tried: no count, a zero count, counts and line numbers of
\* two digits, a count on the new side only
HeaderForms ==
    { <<1, Omitted, 1, Omitted>>, <<2, 0, 3, Omitted>>,
      <<12, 3, 10, 14>>, <<1, Omitted, 2, 5>> }

\* the lines of the diffs parsed: the headers, a header followed by a section
\* name, lines that only look like headers (closing "@@" cut short, a comma
\* without a count, a leading blank), and a delete, an add and a context line
ParseLineChoices ==
    {HeaderText(f) \o <<NL>> : f \in HeaderForms}
        \cup {HeaderText(<<1, Omitted, 1, Omitted>>) \o <<" ", "f", NL>>}
        \cup {NearHeaderLine,
              <<"@", "@", " ", "-", "1", ",", " ", "+", "1", " ", "@", "@", NL>>,
              <<" ">> \o HeaderText(<<1, Omitted, 1, Omitted>>) \o <<NL>>}
        \cup {<<"-", "a", NL>>, <<"+", "b", NL>>, <<" ", "c", NL>>}

\* the lines of the hunk bodies parsed: a delete, an add and a context line,
\* a line of each prefix that is skipped, a delete of a line that begins
\* with "-", a bare newline, a bare "\r\n" and a line of another character
BodyLineChoices ==
    { <<"-", "a", NL>>, <<"+", "b", NL>>, <<" ", "c", NL>>,
      <<"-", "-", "-", " ", "a", NL>>, <<"+", "+", "+", " ", "b", NL>>,
      <<"d", "i", "f", "f", " ", NL>>, <<"i", "n", "d", "e", "x", " ", "1", NL>>,
      <<"-", "-", "a", NL>>, <<NL>>, <<CR, NL>>, <<"x", NL>> }

\* the diff texts parsed for their bodies: at most one body line, a header,
\* and up to MaxDiffLines - 2 body lines
BodyTexts ==
    { Join(pre \o <<HeaderText(<<2, 0, 3, Omitted>>) \o <<NL>> >> \o post) :
        pre \in SeqsUpTo(BodyLineChoices, 1),
        post \in SeqsUpTo(BodyLineChoices, MaxDiffLines - 2) }

\* the diff texts parsed: up to MaxDiffLines lines of headers and the like,
\* and the texts parsed for their bodies, the last line with or without its
\* "\n"
ParseTexts ==
    LET whole == {Join(ls) : ls \in SeqsUpTo(ParseLineChoices, MaxDiffLines)}
                    \cup BodyTexts
    IN  whole \cup {SubSeq(d, 1, Len(d) - 1) : d \in whole \ {<<>>}}

InitParse ==
    /\ file = <<>>
    /\ log = <<>>
    /\ pc = "idle"
    /\ IdleDiff
    /\ IdleSys

\* a call of _parse_unified_diff(diff)
ParseCall ==
    /\ pc = "idle" /\ log = <<>>
    /\ \E d \in ParseTexts :
         log' = <<[op |-> "_parse_unified_diff", diff |-> d,
                   hunks |-> ParseUnifiedDiff(d)]>>
    /\ UNCHANGED <<file, pc, diffvars, sysvars>>

NextParse == ParseCall

SpecParse == InitParse /\ [][NextParse]_vars

----------------------------------------------------------------------------
(* The path sandbox: ToolConfig (config.py) and the first lines of the     *)
(* five edit operations.  A path is the sequence of its components; the    *)
(* root directory is <<>>.                                                 *)

\* the directories of the file system, the one symbolic link (a link inside
\* the project to a directory outside it) and the places of the files
Dirs == {<<>>, <<"proj">>, <<"proj", "sub">>, <<"out">>}
LinkAt == <<"proj", "link">>
LinkTarget == <<"out">>
FilePaths == {<<"proj", "f">>, <<"proj", "sub", "f">>, <<"out", "f">>}

\* the process's working directory
Cwd == <<"proj">>

\* Path.resolve() of an absolute path: ".." steps up (not above the root),
\* a symbolic link is followed, a name that does not exist is kept
RECURSIVE ResolveFrom(_, _)
ResolveFrom(done, rest) ==
    IF rest = <<>> THEN done
    ELSE IF Head(rest) = ".."
    THEN ResolveFrom(SubSeq(done, 1, Len(done) - 1), Tail(rest))
    ELSE LET next == Append(done, Head(rest))
         IN  ResolveFrom(IF next = LinkAt THEN LinkTarget ELSE next, Tail(rest))

Resolve(parts) == ResolveFrom(<<>>, parts)

\* path.relative_to(root) does not raise: root's components begin path's
RelativeTo(path, root) ==
    Len(root) <= Len(path) /\ SubSeq(path, 1, Len(root)) = root

\* ToolConfig(project_root, allowed_paths) after __post_init__
ToolConfig(project_root, allowed_paths) ==
    [project_root |-> Resolve(project_root),
     shell_backend |-> "local",
     allowed_paths |-> {Resolve(p) : p \in allowed_paths}]

\* is_path_allowed with an empty allowed_paths allowing every path
IsPathAllowedEmptyMeansAll(cfg, path) ==
    IF cfg.allowed_paths = {} THEN TRUE
    ELSE \E allowed \in cfg.allowed_paths : RelativeTo(Resolve(path), allowed)

\* ToolConfig.is_path_allowed(path)
IsPathAllowed(cfg, path) ==
    IF cfg.allowed_paths = {}
    THEN RelativeTo(Resolve(path), cfg.project_root)
    ELSE \E allowed \in cfg.allowed_paths : RelativeTo(Resolve(path), allowed)

\* ToolConfig.resolve_path(path) for the path p = [absolute, parts]: the
\* resolved path, or the ValueError raised
ResolvePath(cfg, p) ==
    LET joined == IF p.absolute THEN p.parts ELSE cfg.project_root \o p.parts
        path == Resolve(joined)
    IN  [raised |-> ~IsPathAllowed(cfg, path), path |-> path]

\* get_config(): the global configuration, created with its defaults when
\* there is none
GetConfig == IF config = NoConfig THEN ToolConfig(Cwd, {}) ELSE config

\* the components and the longest path handed to the operations
PathComps == {"proj", "sub", "out", "link", "f", ".."}
MaxPath == 3

PathInputs == [absolute : BOOLEAN, parts : SeqsUpTo(PathComps, MaxPath)]

\* the configurations set: a project root that is a directory or the link,
\* and any allowed paths among a directory inside, one outside and the link
ConfigChoices ==
    { ToolConfig(root, allowed) :
        root \in {<<"proj">>, LinkAt},
        allowed \in SUBSET {<<"proj", "sub">>, <<"out">>, LinkAt} }

\* the five edit operations, each with arguments that fit the files
EditOps == {"search_replace", "search_replace_all", "apply_diff",
            "insert_at_line", "delete_lines"}

\* the diff handed to apply_diff
SandboxDiff ==
    HeaderLine(1) \o <<"-", "a", NL, "+", "b", NL>>

\* what the operation writes for the content on disk: search_replace and
\* search_replace_all of "a" by "b", apply_diff of SandboxDiff,
\* insert_at_line(1, "b"), delete_lines(1, 1)
EditedContent(op, bytes) ==
    LET content == ReadText(bytes)
        ls == SplitLines(content)
        none == [match_start |-> 0 - 1, diffs |-> <<>>]
    IN  CASE op = "search_replace" ->
               WriteText(ApplyReplacement(content, <<"a">>, <<"b">>, none)[1])
          [] op = "search_replace_all" ->
               WriteText(ReplaceAllContent(content, <<"a">>, <<"b">>))
          [] op = "apply_diff" ->
               WriteText(Join(ApplyHunk(ls, ParseUnifiedDiff(SandboxDiff)[1]).result))
          [] op = "insert_at_line" ->
               WriteText(Join(InsertLines(ls, SplitLines(EnsureNewline(<<"b">>)), 1)))
          [] op = "delete_lines" ->
               WriteText(Join(DeleteRange(ls, 1, Min(1, Len(ls)))))

InitSandbox ==
    /\ file = <<>>
    /\ log = <<>>
    /\ pc = "idle"
    /\ IdleDiff
    /\ config = NoConfig
    /\ files = [p \in FilePaths |-> <<"a", NL>>]
    /\ IdleRest

\* configure(project_root=..., allowed_paths=...)
Configure ==
    /\ pc = "idle" /\ log = <<>>
    /\ config = NoConfig
    /\ config' \in ConfigChoices
    /\ UNCHANGED <<file, log, pc, diffvars, files, restvars>>

\* path.exists(): a directory or a file is there
Exists(path) ==
    path \in Dirs \/ path \in DOMAIN files

\* one of the five edit operations called on a path: get_config,
\* resolve_path, the test that the file exists, the read, the edit and the
\* write.  io lists the accesses to the file system made for the file.
SandboxedEdit ==
    /\ pc = "idle" /\ log = <<>>
    /\ \E op \in EditOps, p \in PathInputs :
         LET cfg == GetConfig
             r == ResolvePath(cfg, p)
             rec == [op |-> op, file_path |-> p, config |-> cfg,
                     resolved |-> r.path, files_before |-> files]
         IN  /\ config' = cfg
             /\ IF r.raised
                THEN /\ files' = files
                     /\ log' = <<rec @@ [status |-> "ValueError",
                                         message |-> "outside allowed boundaries",
                                         io |-> <<>>]>>
                ELSE IF ~Exists(r.path)
                THEN /\ files' = files
                     /\ log' = <<rec @@ [status |-> "FileNotFoundError",
                                         message |-> "File not found",
                                         io |-> <<"exists">>]>>
                ELSE IF r.path \in Dirs /\ op = "search_replace"
                THEN /\ files' = files
                     /\ log' = <<rec @@ [status |-> "ValueError",
                                         message |-> "Path is not a file",
                                         io |-> <<"exists", "is_file">>]>>
                ELSE IF r.path \in Dirs
                THEN /\ files' = files
                     /\ log' = <<rec @@ [status |-> "IsADirectoryError",
                                         message |-> "",
                                         io |-> <<"exists", "read">>]>>
                ELSE /\ files' = [files EXCEPT
                                    ![r.path] = EditedContent(op, files[r.path])]
                     /\ log' = <<rec @@ [status |-> "ok", message |-> "",
                                         io |-> <<"exists", "read", "write">>]>>
    /\ UNCHANGED <<file, pc, diffvars, restvars>>

NextSandbox == Configure \/ SandboxedEdit

SpecSandbox == InitSandbox /\ [][NextSandbox]_vars

----------------------------------------------------------------------------
(* Concurrent callers of the edit operations.  Each caller runs one        *)
(* operation; the steps of two callers interleave between the operation's  *)
(* accesses to the file system: read_text, and write_text's open (which    *)
(* truncates the file) and its write.                                      *)

Callers == {1, 2}

\* the text a caller's edit puts in: "b" by the first caller, "c" by the
\* second
Mark(i) == IF i = 1 THEN <<"b">> ELSE <<"c">>

\* the diff a caller hands to apply_diff
CallerDiff(mark) == HeaderLine(1) \o <<"-", "a", NL, "+">> \o mark \o <<NL>>

\* the outcomes of an operation on the content read from the file:
\* search_replace("a", mark), search_replace_all("a", mark),
\* apply_diff(CallerDiff(mark)), insert_at_line(1, mark), delete_lines(1, 1);
\* ok is FALSE when the operation raises after the read
EditResults(op, mark, bytes) ==
    LET content == ReadText(bytes)
        ls == SplitLines(content)
    IN  CASE op = "search_replace" ->
               { LET r == ApplyReplacement(content, <<"a">>, mark, lib)
                 IN  [ok |-> r[2], content |-> WriteText(r[1])] :
                 lib \in AnswersFor(content, <<"a">>, 0, DefaultMatcher) }
          [] op = "search_replace_all" ->
               { [ok |-> Count(content, <<"a">>) # 0,
                  content |-> WriteText(ReplaceAllContent(content, <<"a">>, mark))] }
          [] op = "apply_diff" ->
               { LET r == ApplyHunk(ls, ParseUnifiedDiff(CallerDiff(mark))[1])
                 IN  [ok |-> r.raised = "", content |-> WriteText(Join(r.result))] }
          [] op = "insert_at_line" ->
               { [ok |-> TRUE,
                  content |-> WriteText(Join(InsertLines(ls,
                                  SplitLines(EnsureNewline(mark)), 1)))] }
          [] op = "delete_lines" ->
               { [ok |-> 1 <= Len(ls),
                  content |-> WriteText(Join(DeleteRange(ls, 1, Min(1, Len(ls)))))] }

\* an open for writing that leaves a file alone when it no longer holds what
\* the caller read
TruncatedIfUnchanged(fs, p) ==
    IF fs[p.resolved] = p.read THEN [fs EXCEPT ![p.resolved] = <<>>] ELSE fs

\* the file system after write_text's open("w") and after its write
Truncated(fs, p) == [fs EXCEPT ![p.resolved] = <<>>]

\* a write that reaches every file
FlushedEverywhere(fs, p) == [q \in DOMAIN fs |-> p.new_content]

Flushed(fs, p) == [fs EXCEPT ![p.resolved] = p.new_content]

\* the paths the callers name, relative to the project root: two files, a
\* second name of the first file, and a file reached through the link
CallerPaths ==
    { [absolute |-> FALSE, parts |-> parts] :
        parts \in {<<"f">>, <<"sub", "f">>, <<"sub", "..", "f">>, <<"link", "f">>} }

InitialFiles == [p \in FilePaths |-> <<"a", NL>>]

Waiting == [pc |-> "ready"]

InitCallers ==
    /\ file = <<>>
    /\ log = <<>>
    /\ pc = "idle"
    /\ IdleDiff
    /\ config = NoConfig
    /\ files = InitialFiles
    /\ procs = [i \in Callers |-> Waiting]
    /\ agent = <<>>
    /\ shell = <<>>

\* the caller is done, with the exception raised or "ok"
Done(p, status) == [p EXCEPT !.pc = "done"] @@ [status |-> status]

\* the operation begins: get_config(), resolve_path and the exists() test
Enter(i) ==
    /\ procs[i].pc = "ready"
    /\ \E op \in EditOps, fp \in CallerPaths :
         LET cfg == GetConfig
             r == ResolvePath(cfg, fp)
             p == [pc |-> "reading", op |-> op, file_path |-> fp,
                   resolved |-> r.path]
         IN  /\ config' = cfg
             /\ procs' = [procs EXCEPT ![i] =
                    IF r.raised THEN Done(p, "ValueError")
                    ELSE IF ~Exists(r.path) THEN Done(p, "FileNotFoundError")
                    ELSE p]
    /\ UNCHANGED <<file, log, pc, diffvars, files, agent, shell>>

\* read_text, and the edit computed from what was read
ReadFile(i) ==
    /\ procs[i].pc = "reading"
    /\ LET p == procs[i]
           bytes == files[p.resolved]
       IN  \E r \in EditResults(p.op, Mark(i), bytes) :
              procs' = [procs EXCEPT ![i] =
                  IF r.ok
                  THEN [p EXCEPT !.pc = "writing"]
                          @@ [read |-> bytes, new_content |-> r.content]
                  ELSE Done(p @@ [read |-> bytes], "ValueError")]
    /\ UNCHANGED <<file, log, pc, diffvars, config, files, agent, shell>>

\* write_text opens the file for writing
Truncate(i) ==
    /\ procs[i].pc = "writing"
    /\ files' = Truncated(files, procs[i])
    /\ procs' = [procs EXCEPT ![i].pc = "flushing"]
    /\ UNCHANGED <<file, log, pc, diffvars, config, agent, shell>>

\* write_text writes the new content and closes the file; the operation
\* returns its message
Flush(i) ==
    /\ procs[i].pc = "flushing"
    /\ files' = Flushed(files, procs[i])
    /\ procs' = [procs EXCEPT ![i] = Done(procs[i], "ok")]
    /\ UNCHANGED <<file, log, pc, diffvars, config, agent, shell>>

NextCallers ==
    \E i \in Callers : Enter(i) \/ ReadFile(i) \/ Truncate(i) \/ Flush(i)

SpecCallers == InitCallers /\ [][NextCallers]_vars

----------------------------------------------------------------------------
(* Agent.forward (modules/Agent/module.py): the plan-then-execute loop.    *)
(* Plan and Execute are dspy.ReAct programs driven by a language model:    *)
(* what they return is any value of the type they return.                  *)

\* the largest max_iterations an Agent is made with
MaxIterations == 3

\* "QUESTION:", the marker ask_question puts before a question
QuestionMark == <<"Q", "U", "E", "S", "T", "I", "O", "N", ":">>

\* the characters str.strip() removes
Whitespace == {" ", NL, CR, FF, "\t"}

\* str.strip()
RECURSIVE LStrip(_)
LStrip(s) ==
    IF s # <<>> /\ Head(s) \in Whitespace THEN LStrip(Tail(s)) ELSE s

Strip(s) == Reverse(LStrip(Reverse(LStrip(s))))

\* a str, and a dspy.Prediction with its result field
Str(text) == [type |-> "str", text |-> text]
Prediction(text) == [type |-> "Prediction", result |-> text]

\* ask_question(question)
AskQuestion(question) == QuestionMark \o <<" ">> \o question

\* the texts of the execution results: two questions as ask_question
\* writes them, one with white space around it, the bare marker, a result
\* that is no question and one that has the marker inside it
ResultTexts ==
    { AskQuestion(<<"q">>),
      AskQuestion(<<"r">>),
      <<" ">> \o AskQuestion(<<"q">>) \o <<NL>>,
      QuestionMark,
      <<"o", "k">>,
      <<"o", "k", " ">> \o QuestionMark }

\* Execute.forward returns what dspy.ReAct returns, a Prediction; a str
\* comes from an execute module that returns its result text
ExecutionResponses ==
    {Str(t) : t \in ResultTexts} \cup {Prediction(t) : t \in ResultTexts}

\* the plans Plan.forward returns in updated_plan
Plans == {"plan A", "plan B"}

\* Agent._execution_contains_question(execution_response)
ExecutionContainsQuestion(r) ==
    IF r.type = "str" THEN StartsWith(Strip(r.text), QuestionMark)
    ELSE FALSE

\* Agent._extract_question(execution_response)
ExtractQuestion(r) ==
    IF r.type = "str" THEN Strip(PySliceFrom(Strip(r.text), 9))
    ELSE <<"Unknown question format">>

\* the message returned when the loop runs out
MaxIterationsMessage(n, plan) ==
    <<"Max iterations (", n,
      ") reached. Unable to complete task. Last plan: ", plan>>

\* forward(task) has been called on an Agent with some max_iterations
InitAgent ==
    /\ file = <<>>
    /\ log = <<>>
    /\ pc = "idle"
    /\ IdleDiff
    /\ config = NoConfig
    /\ files = <<>>
    /\ procs = <<>>
    /\ shell = <<>>
    /\ \E n \in 0..MaxIterations :
          agent = [pc |-> "for", max_iterations |-> n, iteration |-> 0,
                   current_plan |-> "", developer_question |-> <<>>,
                   calls |-> <<>>, returned |-> <<>>]

\* for iteration in range(self.max_iterations), and the return after the loop
AgentFor ==
    /\ agent.pc = "for"
    /\ agent' = IF agent.iteration < agent.max_iterations
                THEN [agent EXCEPT !.pc = "plan"]
                ELSE [agent EXCEPT !.pc = "done",
                        !.returned = <<Str(MaxIterationsMessage(
                             agent.max_iterations, agent.current_plan))>>]
    /\ UNCHANGED <<file, log, pc, diffvars, config, files, procs, shell>>

\* plan_response = self.plan(...); current_plan = plan_response.updated_plan
AgentPlan ==
    /\ agent.pc = "plan"
    /\ \E updated_plan \in Plans :
          agent' = [agent EXCEPT
              !.pc = "execute",
              !.calls = Append(@, [fn |-> "plan",
                                   current_plan |-> agent.current_plan,
                                   developer_question |-> agent.developer_question,
                                   ret |-> updated_plan]),
              !.current_plan = updated_plan]
    /\ UNCHANGED <<file, log, pc, diffvars, config, files, procs, shell>>

\* execution_response = self.execute(task, plan=current_plan) and the test
\* for a question: continue with the question, or return the response
AgentExecute ==
    /\ agent.pc = "execute"
    /\ \E r \in ExecutionResponses :
          LET called == [agent EXCEPT
                  !.calls = Append(@, [fn |-> "execute",
                                       plan |-> agent.current_plan,
                                       ret |-> r])]
          IN  agent' = IF ExecutionContainsQuestion(r)
                       THEN [called EXCEPT
                               !.developer_question = ExtractQuestion(r),
                               !.iteration = @ + 1,
                               !.pc = "for"]
                       ELSE [called EXCEPT !.pc = "done", !.returned = <<r>>]
    /\ UNCHANGED <<file, log, pc, diffvars, config, files, procs, shell>>

NextAgent == AgentFor \/ AgentPlan \/ AgentExecute

SpecAgent == InitAgent /\ [][NextAgent]_vars

\* forward is one sequential call: each of its steps is taken once it can be
SpecAgentRuns == SpecAgent /\ WF_vars(NextAgent)

----------------------------------------------------------------------------
(* The shell backends (backends/shell_local.py, backends/shell_docker.py)  *)
(* and the shell tools (tools/shell.py).  LocalShellBackend and            *)
(* DockerShellBackend have the same lifecycle code over a SWE-ReX          *)
(* deployment; a backend is numbered by its place in shell.backends, a     *)
(* deployment by its place in shell.deployments, and 0 stands for None.    *)

\* the most deployments created in a run
MaxDeployments == 3

BackendKinds == {"local", "docker"}

\* how the awaits of _start_async go: all return, deployment.start()
\* raises, create_session raises, or the run_in_session after it raises
StartOutcomes == {"ok", "start_raises", "session_raises", "cd_raises"}

\* how deployment.stop() goes
StopOutcomes == {"ok", "stop_raises"}

\* the shell tools' module state before any call, with no backend made
NoShell ==
    [current_backend |-> 0,
     instance |-> [k \in BackendKinds |-> 0],
     backends |-> <<>>,
     deployments |-> <<>>,
     last |-> [op |-> "none"]]

\* LocalShellBackend(...) and DockerShellBackend(...): __init__
NewBackend(s, kind) ==
    [s EXCEPT !.backends = Append(@, [kind |-> kind, deployment |-> 0,
                                      runtime |-> 0, started |-> FALSE])]

\* is_running()
IsRunning(s, b) == s.backends[b].started /\ s.backends[b].deployment # 0

\* _start_async with _started set before the deployment is started
StartAsyncStartedFirst(s, b, how) ==
    IF IsRunning(s, b) THEN [s |-> s, raised |-> FALSE]
    ELSE LET d == Len(s.deployments) + 1
             made == [s EXCEPT !.backends[b].deployment = d,
                               !.backends[b].started = TRUE]
         IN  IF how = "start_raises"
             THEN [s |-> [made EXCEPT !.deployments = Append(@, "failed")],
                   raised |-> TRUE]
             ELSE [s |-> [made EXCEPT !.deployments = Append(@, "running"),
                                      !.backends[b].runtime = d],
                   raised |-> how # "ok"]

\* _start_async, and start() which runs it: the state after it and whether
\* it raised
StartAsync(s, b, how) ==
    IF IsRunning(s, b) THEN [s |-> s, raised |-> FALSE]
    ELSE LET d == Len(s.deployments) + 1
             made == [s EXCEPT !.backends[b].deployment = d]
         IN  IF how = "start_raises"
             THEN [s |-> [made EXCEPT !.deployments = Append(@, "failed")],
                   raised |-> TRUE]
             ELSE LET up == [made EXCEPT !.deployments = Append(@, "running"),
                                         !.backends[b].runtime = d]
                  IN  IF how = "session_raises"
                      THEN [s |-> up, raised |-> TRUE]
                      ELSE [s |-> [up EXCEPT !.backends[b].started = TRUE],
                            raised |-> how = "cd_raises"]

\* stop() and _stop_async: an exception of deployment.stop() is swallowed
Stop(s, b, how) ==
    LET d == s.backends[b].deployment
    IN  IF d = 0 THEN s
        ELSE [s EXCEPT !.deployments[d] = IF how = "ok" THEN "stopped" ELSE @,
                       !.backends[b].deployment = 0,
                       !.backends[b].runtime = 0,
                       !.backends[b].started = FALSE]

\* run(command): _execute_async starts the backend when it is not running
Run(s, b, how) ==
    IF IsRunning(s, b) THEN [s |-> s, raised |-> FALSE]
    ELSE StartAsync(s, b, how)

\* reset(): stop(), then start()
Reset(s, b, stop_how, how) == StartAsync(Stop(s, b, stop_how), b, how)

\* get_local_shell(...) and get_docker_shell(...) with reset=False
GetShell(s, kind, how) ==
    IF s.instance[kind] = 0
    THEN LET b == Len(s.backends) + 1
             r == StartAsync([NewBackend(s, kind) EXCEPT !.instance[kind] = b],
                             b, how)
         IN  [s |-> r.s, raised |-> r.raised, backend |-> b]
    ELSE [s |-> s, raised |-> FALSE, backend |-> s.instance[kind]]

\* close_local_shell() and close_docker_shell()
CloseInstance(s, kind, how) ==
    IF s.instance[kind] # 0
    THEN [Stop(s, s.instance[kind], how) EXCEPT !.instance[kind] = 0]
    ELSE s

\* _get_shell_backend()
GetShellBackend(s, cfg, how) ==
    IF s.current_backend # 0
    THEN [s |-> s, raised |-> FALSE, backend |-> s.current_backend]
    ELSE LET g == GetShell(s, cfg.shell_backend, how)
         IN  IF g.raised THEN g
             ELSE [g EXCEPT !.s.current_backend = g.backend]

\* the kind of backend close_shell closes
KindClosed(cfg) == cfg.shell_backend

\* the record of the call just made
LastCall(s, op, raised) ==
    [op |-> op, raised |-> raised, after |-> s.last.op,
     backends_before |-> Len(s.backends),
     deployments_before |-> Len(s.deployments),
     was_running |-> {b \in DOMAIN s.backends : IsRunning(s, b)}]

InitShellTools ==
    /\ file = <<>>
    /\ log = <<>>
    /\ pc = "idle"
    /\ IdleDiff
    /\ config = NoConfig
    /\ files = <<>>
    /\ procs = <<>>
    /\ agent = <<>>
    /\ shell = NoShell

\* a deployment can still be made
CanDeploy == Len(shell.deployments) < MaxDeployments

\* configure(shell_backend=kind)
SetShellBackend ==
    /\ \E kind \in BackendKinds :
          config' = [ToolConfig(Cwd, {}) EXCEPT !.shell_backend = kind]
    /\ shell' = [shell EXCEPT !.last = LastCall(shell, "configure", FALSE)]
    /\ UNCHANGED <<file, log, pc, diffvars, files, procs, agent>>

\* execute_bash, execute_bash_with_status, get_working_directory and
\* change_directory: _get_shell_backend(), then backend.run(...)
ExecuteBash ==
    /\ CanDeploy
    /\ \E how \in StartOutcomes :
          LET cfg == GetConfig
              g == GetShellBackend(shell, cfg, how)
              r == IF g.raised THEN g ELSE Run(g.s, g.backend, how)
          IN  /\ config' = cfg
              /\ shell' = [r.s EXCEPT
                             !.last = LastCall(shell, "execute_bash", g.raised)]
    /\ UNCHANGED <<file, log, pc, diffvars, files, procs, agent>>

\* reset_shell_session: _get_shell_backend(), then backend.reset(), whose
\* exception is caught
ResetShellSession ==
    /\ Len(shell.deployments) + 2 <= MaxDeployments
    /\ \E got \in StartOutcomes, how \in StartOutcomes,
          stop_how \in StopOutcomes :
          LET cfg == GetConfig
              g == GetShellBackend(shell, cfg, got)
              r == IF g.raised THEN g ELSE Reset(g.s, g.backend, stop_how, how)
          IN  /\ config' = cfg
              /\ shell' = [r.s EXCEPT
                             !.last = LastCall(shell, "reset_shell_session",
                                               g.raised)]
    /\ UNCHANGED <<file, log, pc, diffvars, files, procs, agent>>

\* get_shell_info: _get_shell_backend(), then is_running() and, on a
\* running backend, get_working_directory()
GetShellInfo ==
    /\ CanDeploy
    /\ \E got \in StartOutcomes :
          LET cfg == GetConfig
              g == GetShellBackend(shell, cfg, got)
          IN  /\ config' = cfg
              /\ shell' = [g.s EXCEPT
                             !.last = LastCall(shell, "get_shell_info",
                                               g.raised)]
    /\ UNCHANGED <<file, log, pc, diffvars, files, procs, agent>>

\* close_shell()
CloseShell ==
    /\ \E stop_how \in StopOutcomes :
          LET cfg == GetConfig
              closed == CloseInstance(shell, KindClosed(cfg), stop_how)
          IN  /\ config' = cfg
              /\ shell' = [closed EXCEPT
                             !.current_backend = 0,
                             !.last = LastCall(shell, "close_shell", FALSE)]
    /\ UNCHANGED <<file, log, pc, diffvars, files, procs, agent>>

NextShellTools ==
    \/ SetShellBackend
    \/ ExecuteBash
    \/ ResetShellSession
    \/ GetShellInfo
    \/ CloseShell

SpecShellTools == InitShellTools /\ [][NextShellTools]_vars

\* one backend object of either class, driven through its methods
InitBackend ==
    /\ file = <<>>
    /\ log = <<>>
    /\ pc = "idle"
    /\ IdleDiff
    /\ config = NoConfig
    /\ files = <<>>
    /\ procs = <<>>
    /\ agent = <<>>
    /\ \E kind \in BackendKinds : shell = NewBackend(NoShell, kind)

\* backend.start()
BackendStart ==
    /\ CanDeploy
    /\ \E how \in StartOutcomes :
          LET r == StartAsync(shell, 1, how)
          IN  shell' = [r.s EXCEPT !.last = LastCall(shell, "start", r.raised)]
    /\ UNCHANGED <<file, log, pc, diffvars, config, files, procs, agent>>

\* backend.stop()
BackendStop ==
    /\ \E how \in StopOutcomes :
          shell' = [Stop(shell, 1, how) EXCEPT
                      !.last = LastCall(shell, "stop", FALSE)]
    /\ UNCHANGED <<file, log, pc, diffvars, config, files, procs, agent>>

\* backend.run(command)
BackendRun ==
    /\ CanDeploy
    /\ \E how \in StartOutcomes :
          LET r == Run(shell, 1, how)
          IN  shell' = [r.s EXCEPT !.last = LastCall(shell, "run", r.raised)]
    /\ UNCHANGED <<file, log, pc, diffvars, config, files, procs, agent>>

\* backend.reset()
BackendReset ==
    /\ CanDeploy
    /\ \E how \in StartOutcomes, stop_how \in StopOutcomes :
          LET r == Reset(shell, 1, stop_how, how)
          IN  shell' = [r.s EXCEPT !.last = LastCall(shell, "reset", r.raised)]
    /\ UNCHANGED <<file, log, pc, diffvars, config, files, procs, agent>>

NextBackend == BackendStart \/ BackendStop \/ BackendRun \/ BackendReset

SpecBackend == InitBackend /\ [][NextBackend]_vars

----------------------------------------------------------------------------
(* The engine as a whole: any file of the above, any one operation.        *)

Init == InitSearch \/ InitReplaceAll \/ InitLines \/ InitDiff \/ InitParse

Next == NextSearch \/ NextReplaceAll \/ NextLines \/ NextDiff \/ NextHunk
            \/ NextParse

Spec == Init /\ [][Next]_vars

----------------------------------------------------------------------------
(* Claims about apply_diff and _apply_hunk, under SpecDiff.                *)

\* the number of ops of one kind in a hunk
RECURSIVE NumOps(_, _)
NumOps(ops, kind) ==
    IF ops = <<>> THEN 0
    ELSE (IF Head(ops)[1] = kind THEN 1 ELSE 0) + NumOps(Tail(ops), kind)

\* the lines of the file a hunk reads: one for every context and delete op
Consumed(h) == NumOps(h.ops, "context") + NumOps(h.ops, "delete")

\* the hunk lies inside a sequence of n lines
Inside(h, n) == h.old_start >= 1 /\ h.old_start - 1 + Consumed(h) <= n

\* the hunks are listed at increasing line numbers and do not overlap
IncreasingDisjoint(hs) ==
    \A i \in 1..(Len(hs) - 1) :
        /\ hs[i].old_start < hs[i + 1].old_start
        /\ hs[i].old_start - 1 + Consumed(hs[i]) <= hs[i + 1].old_start - 1

\* what hunk h alone makes of its own range of the original lines ls: its
\* result on an untouched copy of ls, less the lines before and after the range
Piece(ls, h) ==
    LET r == ApplyHunk(ls, h).result
        s == h.old_start - 1
        e == s + Consumed(h)
    IN  SubSeq(r, s + 1, Len(r) - (Len(ls) - e))

\* the pieces of the hunks stitched by range into the original lines, from
\* 0-based line pos on
RECURSIVE Stitch(_, _, _)
Stitch(ls, hs, pos) ==
    IF hs = <<>> THEN PySliceFrom(ls, pos)
    ELSE LET s == Head(hs).old_start - 1
         IN  PySlice(ls, pos, s) \o Piece(ls, Head(hs))
                 \o Stitch(ls, Tail(hs), s + Consumed(Head(hs)))

\* the apply_diff calls that have finished
DiffCalls == Calls({"apply_diff"})

\* C2: reverse-order hunk safety.  For a diff whose hunks are listed at
\* increasing line numbers, do not overlap and lie inside the file, the
\* content apply_diff writes from its one mutating buffer is the content got
\* by applying each hunk to an untouched copy of the original lines and
\* stitching the results by range.
C2_ReverseOrderHunkSafety ==
    \A i \in DiffCalls :
        LET c == log[i]
        IN  (/\ c.hunks # <<>>
             /\ IncreasingDisjoint(c.hunks)
             /\ \A k \in DOMAIN c.hunks : Inside(c.hunks[k], Len(c.lines)))
            => /\ c.status = "ok"
               /\ file = WriteText(Join(Stitch(c.lines, c.hunks, 0)))

\* C2 witness: two hunks inside a two-line file, the first of which adds a
\* line without taking one, so that it shifts the lines the second names
C2_Witness ==
    \E i \in DiffCalls :
        LET c == log[i]
        IN  /\ Len(c.hunks) = 2
            /\ Len(c.lines) = 2
            /\ IncreasingDisjoint(c.hunks)
            /\ \A k \in DOMAIN c.hunks : Inside(c.hunks[k], Len(c.lines))
            /\ NumOps(c.hunks[1].ops, "add") = 1
            /\ NumOps(c.hunks[1].ops, "delete") = 0
            /\ NumOps(c.hunks[2].ops, "delete") = 1
            /\ c.status = "ok"
            /\ file # c.before

\* the hunks handed to _apply_hunk so far, in the order of the calls
AppliedHunks == [k \in DOMAIN applied |-> applied[k].hunk]

\* C3 as claimed: whenever hunk A is applied before hunk B,
\* A.old_start >= B.old_start, whatever order the hunks have in the diff.
C3_DescendingAsClaimed ==
    \A i, j \in DOMAIN applied :
        i < j => applied[i].hunk.old_start >= applied[j].hunk.old_start

\* C3 amended: apply_diff applies the hunks in the reverse of the order they
\* have in the diff text, so hunk A is applied before hunk B with
\* A.old_start >= B.old_start whenever the diff lists its hunks at
\* non-decreasing old_start.
C3_ReverseOfDiffOrder ==
    /\ \A k \in DOMAIN applied : applied[k].hunk = hunks[Len(hunks) + 1 - k]
    /\ (\A k \in 1..(Len(hunks) - 1) : hunks[k].old_start <= hunks[k + 1].old_start)
        => \A i, j \in DOMAIN applied :
              i < j => applied[i].hunk.old_start >= applied[j].hunk.old_start

\* C3 witness: the two hunks of a diff listed at increasing old_start have
\* both been applied, the higher one first
C3_Witness ==
    /\ Len(hunks) = 2
    /\ hunks[1].old_start < hunks[2].old_start
    /\ Len(applied) = 2
    /\ applied[1].hunk.old_start > applied[2].hunk.old_start

\* the text an add op puts into the output
AddedLine(content) == IF EndsWithNL(content) THEN content ELSE content \o <<NL>>

\* the old_start, the context ops or the delete ops of hunk h reach past the
\* end of a sequence of n lines
PastEnd(h, n) ==
    \/ h.old_start - 1 > n
    \/ Max(h.old_start - 1, 0) + Consumed(h) > n

\* C4: apply_diff never silently drops a requested edit.  When apply_diff
\* returns, no hunk that asks for anything reached past the end of the lines
\* it was applied to (such a hunk is an error), every delete op removed
\* exactly one line and every add op's text is in the written content.
C4_NoEditSilentlyDropped ==
    \A i \in DiffCalls :
        LET c == log[i]
        IN  c.status = "ok" =>
              \A k \in DOMAIN c.steps :
                 LET st == c.steps[k]
                 IN  /\ st.hunk.ops # <<>> => ~PastEnd(st.hunk, Len(st.lines_in))
                     /\ Len(st.lines_out) = Len(st.lines_in)
                                             - NumOps(st.hunk.ops, "delete")
                                             + NumOps(st.hunk.ops, "add")
                     /\ \A o \in DOMAIN st.hunk.ops :
                           st.hunk.ops[o][1] = "add"
                              => \E q \in DOMAIN new_lines :
                                    new_lines[q] = AddedLine(st.hunk.ops[o][2])

\* the hunks applied one after the other, the last of the diff first
RECURSIVE ApplyAll(_, _)
ApplyAll(ls, hs) ==
    IF hs = <<>> THEN ls
    ELSE ApplyAll(ApplyHunk(ls, hs[Len(hs)]).result, SubSeq(hs, 1, Len(hs) - 1))

\* C5: apply_diff is atomic with respect to the file.  While the call runs
\* and after it raised, the file is the original content; after it returned,
\* the file is the content got by applying every parsed hunk and the reported
\* count is the number of hunks parsed.  It is never the result of some of
\* the hunks only.
C5_AtomicWrite ==
    /\ pc = "hunks" => file = before
    /\ \A i \in DiffCalls :
          LET c == log[i]
          IN  /\ c.status # "ok" => file = c.before
              /\ c.status = "ok" =>
                    /\ file = WriteText(Join(ApplyAll(c.lines, c.hunks)))
                    /\ c.count = Len(c.hunks)

\* C5 witness on the side of success: a diff of two hunks has changed the file
C5_Witness ==
    \E i \in DiffCalls :
        /\ log[i].status = "ok"
        /\ log[i].count = 2
        /\ file # log[i].before

\* C5 witness on the side of failure: the call raised after a hunk had
\* already changed the buffer
C5_WitnessRaised ==
    \E i \in DiffCalls :
        /\ log[i].status = "IndexError"
        /\ log[i].count >= 1
        /\ new_lines # log[i].lines

\* C6: the frame of _apply_hunk.  For the lines and the hunk of every call,
\* with s = old_start - 1 and e = s + the number of context and delete ops,
\* the output is the input lines before s, then one line for every context
\* and add op, then the input lines from e on: every input line outside the
\* range [s, e) is in the output once, in its place.
C6_HunkFrame ==
    \A k \in DOMAIN applied :
        LET st == applied[k]
            n == Len(st.lines_in)
            s == Min(Max(st.hunk.old_start - 1, 0), n)
            e == Min(Max(st.hunk.old_start - 1 + Consumed(st.hunk), s), n)
            mid == NumOps(st.hunk.ops, "context") + NumOps(st.hunk.ops, "add")
            out == st.lines_out
        IN  /\ Len(out) = s + mid + (n - e)
            /\ SubSeq(out, 1, s) = SubSeq(st.lines_in, 1, s)
            /\ SubSeq(out, s + mid + 1, Len(out)) = SubSeq(st.lines_in, e + 1, n)
\* a line of the diff text d that opens with "@@"
HasAtAtLine(d) ==
    \E k \in DOMAIN SplitLines(d) :
        StartsWith(SplitLines(d)[k], <<"@", "@">>)

\* every line of d that opens with "@@" is the near-header line
OnlyNearHeaders(d) ==
    \A k \in DOMAIN SplitLines(d) :
        StartsWith(SplitLines(d)[k], <<"@", "@">>)
            => SplitLines(d)[k] = NearHeaderLine

\* C13: a diff text with no recognised hunk header (no line "@@ -a +c @@")
\* parses to the empty hunk sequence, and apply_diff on it raises ValueError,
\* applies nothing and leaves the file as it was.
C13_NoHunksIsAnError ==
    \A i \in DiffCalls :
        LET c == log[i]
        IN  OnlyNearHeaders(c.diff)
            => /\ c.hunks = <<>>
               /\ c.status = "ValueError"
               /\ c.steps = <<>>
               /\ c.after = c.before
               /\ file = c.before

\* C13 witness: a diff of body lines and a cut-short header, no true header
\* among them, was refused
C13_Witness ==
    \E i \in DiffCalls :
        LET c == log[i]
        IN  /\ HasAtAtLine(c.diff)
            /\ OnlyNearHeaders(c.diff)
            /\ OccursIn(c.diff, <<"-", "a", NL>>)
            /\ c.before # <<>>
            /\ c.status = "ValueError"
            /\ file = c.before

----------------------------------------------------------------------------
(* Claims about _apply_hunk called on its own, under SpecHunk.             *)

\* the number of ops of the kinds given before op j
OpsBefore(ops, j, kinds) ==
    Cardinality({i \in 1..(j - 1) : ops[i][1] \in kinds})

\* the read cursor at op j of hunk h: old_start - 1 and one more for every
\* context and delete op before j
CursorAt(h, j) == h.old_start - 1 + OpsBefore(h.ops, j, {"context", "delete"})

\* the number of lines put out before op j of hunk h applied to n lines: the
\* lines before the hunk and one for every context and add op before j
EmittedBefore(h, j, n) ==
    Min(h.old_start - 1, n) + OpsBefore(h.ops, j, {"context", "add"})

\* C18: HunkApplier context op.  For every context op of a hunk at a line
\* number from 1 on, _apply_hunk puts out the file's own line at the read
\* cursor, not the text the hunk recorded, and moves the cursor on by 1.
C18_ContextCopiesFileLine ==
    \A i \in Calls({"_apply_hunk"}) :
        LET c == log[i]
            h == c.hunk
            n == Len(c.lines)
        IN  h.old_start >= 1 =>
              /\ c.raised = ""
              /\ \A j \in DOMAIN h.ops :
                    h.ops[j][1] = "context" =>
                       /\ CursorAt(h, j) < n
                       /\ EmittedBefore(h, j, n) + 1 \in DOMAIN c.result
                       /\ c.result[EmittedBefore(h, j, n) + 1]
                             = c.lines[CursorAt(h, j) + 1]

\* the part of C18 that holds: a context op whose read cursor is inside the
\* file puts out the file's line, whatever text the hunk recorded
C18_ContextInsideTheFile ==
    \A i \in Calls({"_apply_hunk"}) :
        LET c == log[i]
            h == c.hunk
            n == Len(c.lines)
        IN  h.old_start >= 1 =>
              \A j \in DOMAIN h.ops :
                 (h.ops[j][1] = "context" /\ CursorAt(h, j) < n) =>
                     c.result[EmittedBefore(h, j, n) + 1]
                        = c.lines[CursorAt(h, j) + 1]

\* a context op whose recorded text differs from the file's line was applied
\* and the file's line kept
C18_DriftReached ==
    \E i \in Calls({"_apply_hunk"}) :
        LET c == log[i]
        IN  /\ c.lines = << <<"b", NL>> >>
            /\ c.hunk.old_start = 1
            /\ c.hunk.ops = << <<"context", <<"a", NL>> >> >>
            /\ c.result = c.lines

\* the text an add op puts out
AddedText(content) ==
    IF content # <<>> /\ content[Len(content)] = NL THEN content
    ELSE content \o <<NL>>

\* C19: HunkApplier add and delete ops.  An add op puts out its text, with
\* "\n" after it when it has none, and leaves the read cursor; a delete op
\* moves the cursor on by 1 and puts out nothing.  Hence, for a hunk lying
\* inside the file, the result has len(lines) + adds - deletes lines: the
\* lines before the hunk, one line per context and add op, and the lines
\* after the ones the hunk read.
C19_AddAndDeleteOps ==
    \A i \in Calls({"_apply_hunk"}) :
        LET c == log[i]
            h == c.hunk
            n == Len(c.lines)
            adds == NumOps(h.ops, "add")
            deletes == NumOps(h.ops, "delete")
            contexts == NumOps(h.ops, "context")
        IN  /\ h.old_start >= 1 =>
                /\ c.raised = ""
                /\ \A j \in DOMAIN h.ops :
                      h.ops[j][1] = "add" =>
                         c.result[EmittedBefore(h, j, n) + 1]
                            = AddedText(h.ops[j][2])
            /\ Inside(h, n) =>
                /\ Len(c.result) = n + adds - deletes
                /\ SubSeq(c.result, 1, h.old_start - 1)
                      = SubSeq(c.lines, 1, h.old_start - 1)
                /\ SubSeq(c.result, h.old_start + contexts + adds, Len(c.result))
                      = SubSeq(c.lines, h.old_start + contexts + deletes, n)

\* C19 witness: a hunk inside a file of two lines that deletes the first
\* line and adds a text without "\n" in its place
C19_Witness ==
    \E i \in Calls({"_apply_hunk"}) :
        LET c == log[i]
        IN  /\ c.lines = << <<"a", NL>>, <<"b", NL>> >>
            /\ c.hunk.old_start = 1
            /\ c.hunk.ops = << <<"delete", <<"a", NL>> >>, <<"add", <<"c">> >> >>
            /\ c.result = << <<"c", NL>>, <<"b", NL>> >>

----------------------------------------------------------------------------
(* Claims about _parse_unified_diff called on its own, under SpecParse.    *)

\* the line opens with a header of one of the forms tried
IsHeaderLine(line) == \E f \in HeaderForms : StartsWith(line, HeaderText(f))

\* the form of a header line
FormOf(line) == CHOOSE f \in HeaderForms : StartsWith(line, HeaderText(f))

\* the positions of the header lines among the lines dl, in order, from
\* position k on
RECURSIVE HeaderPositions(_, _)
HeaderPositions(dl, k) ==
    IF k > Len(dl) THEN <<>>
    ELSE (IF IsHeaderLine(dl[k]) THEN <<k>> ELSE <<>>)
            \o HeaderPositions(dl, k + 1)

\* C20: _parse_unified_diff returns exactly one hunk per line of the header
\* form "@@ -a[,b] +c[,d] @@", in the order of the headers in the diff, with
\* old_start = a, new_start = c, old_count = b and new_count = d when given
\* and 1 when left out; a hunk takes its ops only from the lines between its
\* header and the next, so the lines before the first header give none.
C20_OneHunkPerHeader ==
    \A i \in Calls({"_parse_unified_diff"}) :
        LET c == log[i]
            dl == SplitLines(c.diff)
            hp == HeaderPositions(dl, 1)
            NextAt(j) == IF j < Len(hp) THEN hp[j + 1] ELSE Len(dl) + 1
        IN  /\ Len(c.hunks) = Len(hp)
            /\ \A j \in DOMAIN hp :
                  LET f == FormOf(dl[hp[j]])
                      h == c.hunks[j]
                  IN  /\ h.old_start = f[1]
                      /\ h.old_count = (IF f[2] = Omitted THEN 1 ELSE f[2])
                      /\ h.new_start = f[3]
                      /\ h.new_count = (IF f[4] = Omitted THEN 1 ELSE f[4])
                      /\ Len(h.ops) <= NextAt(j) - hp[j] - 1

\* C20 witness: body lines, then a header without counts, then a header with
\* both counts: two hunks in that order, the first lines in neither
C20_Witness ==
    \E i \in Calls({"_parse_unified_diff"}) :
        LET c == log[i]
            dl == SplitLines(c.diff)
        IN  /\ Len(dl) = 4
            /\ dl[1] = <<"-", "a", NL>>
            /\ dl[2] = HeaderText(<<1, Omitted, 1, Omitted>>) \o <<NL>>
            /\ dl[3] = <<"+", "b", NL>>
            /\ dl[4] = HeaderText(<<12, 3, 10, 14>>) \o <<NL>>
            /\ Len(c.hunks) = 2
            /\ c.hunks[1].old_count = 1 /\ c.hunks[1].new_count = 1
            /\ c.hunks[1].ops = << <<"add", <<"b", NL>> >> >>
            /\ c.hunks[2].old_start = 12 /\ c.hunks[2].old_count = 3
            /\ c.hunks[2].new_start = 10 /\ c.hunks[2].new_count = 14
            /\ c.hunks[2].ops = <<>>

\* C20 witness: lines that only look like headers open no hunk
C20_WitnessNearHeaders ==
    \E i \in Calls({"_parse_unified_diff"}) :
        LET c == log[i]
            dl == SplitLines(c.diff)
        IN  /\ Len(dl) = 3
            /\ \A k \in DOMAIN dl : StartsWith(dl[k], <<"@", "@">>)
            /\ c.hunks = <<>>

\* the line opens with one of the prefixes of the lines that are skipped
IsSkipLine(line) ==
    \/ StartsWith(line, <<"-", "-", "-">>)
    \/ StartsWith(line, <<"+", "+", "+">>)
    \/ StartsWith(line, <<"d", "i", "f", "f", " ">>)
    \/ StartsWith(line, <<"i", "n", "d", "e", "x", " ">>)

\* the lines of the body of the j-th hunk: those after its header, up to the
\* next header or the end of the diff
BodyOf(dl, j) ==
    LET hp == HeaderPositions(dl, 1)
        next == IF j < Len(hp) THEN hp[j + 1] ELSE Len(dl) + 1
    IN  SubSeq(dl, hp[j] + 1, next - 1)

\* the lines of body that are not skipped
RECURSIVE Unskipped(_)
Unskipped(body) ==
    IF body = <<>> THEN <<>>
    ELSE (IF IsSkipLine(Head(body)) THEN <<>> ELSE <<Head(body)>>)
            \o Unskipped(Tail(body))

\* C21: _parse_unified_diff ignores every line that starts with "---",
\* "+++", "diff " or "index ", before the first header and inside a hunk
\* body alike: a hunk has no more ops than its body has other lines, and
\* each of its ops comes, in order, from one of those other lines.
C21_SkipLinesGiveNoOp ==
    \A i \in Calls({"_parse_unified_diff"}) :
        LET c == log[i]
            dl == SplitLines(c.diff)
        IN  \A j \in DOMAIN c.hunks :
               LET kept == Unskipped(BodyOf(dl, j))
                   ops == c.hunks[j].ops
               IN  /\ Len(ops) <= Len(kept)
                   /\ \A k \in DOMAIN ops :
                         \E l \in k..Len(kept) :
                            ops[k][2] \in {kept[l], Tail(kept[l])}

\* C21 witness: a "--- " line and a "+++ " line inside a hunk body, and a
\* "--- " line before the header: the hunk has no op
C21_Witness ==
    \E i \in Calls({"_parse_unified_diff"}) :
        LET c == log[i]
            dl == SplitLines(c.diff)
        IN  /\ Len(dl) = 4
            /\ StartsWith(dl[1], <<"-", "-", "-">>)
            /\ IsHeaderLine(dl[2])
            /\ StartsWith(dl[3], <<"-", "-", "-">>)
            /\ StartsWith(dl[4], <<"+", "+", "+">>)
            /\ Len(c.hunks) = 1
            /\ c.hunks[1].ops = <<>>

\* C21 witness: a "diff " line and an "index " line inside a hunk body
C21_WitnessDiffIndex ==
    \E i \in Calls({"_parse_unified_diff"}) :
        LET c == log[i]
            dl == SplitLines(c.diff)
        IN  /\ Len(dl) = 3
            /\ IsHeaderLine(dl[1])
            /\ StartsWith(dl[2], <<"d", "i", "f", "f", " ">>)
            /\ StartsWith(dl[3], <<"i", "n", "d", "e", "x", " ">>)
            /\ c.hunks[1].ops = <<>>

\* the kind of op a body line gives by its first character, "" for none
KindOf(line) ==
    IF line[1] = "-" THEN "delete"
    ELSE IF line[1] = "+" THEN "add"
    ELSE IF line[1] = " " \/ line = <<NL>> THEN "context"
    ELSE ""

\* the lines of body that give an op
RECURSIVE Classified(_)
Classified(body) ==
    IF body = <<>> THEN <<>>
    ELSE (IF KindOf(Head(body)) = "" THEN <<>> ELSE <<Head(body)>>)
            \o Classified(Tail(body))

\* C22: inside a hunk, each body line (a line that is not skipped by its
\* prefix) is classified by its first character: "-" gives a delete op and
\* "+" an add op whose text is the rest of the line, a blank or a line that
\* is only "\n" gives a context op, a line of any other first character
\* gives nothing and the parse goes on; the ops are in the order of the
\* lines.
C22_BodyLineClassification ==
    \A i \in Calls({"_parse_unified_diff"}) :
        LET c == log[i]
            dl == SplitLines(c.diff)
        IN  /\ Len(c.hunks) = Len(HeaderPositions(dl, 1))
            /\ \A j \in DOMAIN c.hunks :
                  LET lines_ == Classified(Unskipped(BodyOf(dl, j)))
                      ops == c.hunks[j].ops
                  IN  /\ Len(ops) = Len(lines_)
                      /\ \A k \in DOMAIN ops :
                            /\ ops[k][1] = KindOf(lines_[k])
                            /\ ops[k][1] \in {"delete", "add"}
                                  => ops[k][2] = SubSeq(lines_[k], 2, Len(lines_[k]))

\* C22 witness: a line of another first character is skipped and the add
\* line after it still gives its op
C22_Witness ==
    \E i \in Calls({"_parse_unified_diff"}) :
        LET c == log[i]
        IN  /\ c.diff = HeaderText(<<2, 0, 3, Omitted>>)
                          \o <<NL, "x", NL, "+", "b", NL>>
            /\ Len(c.hunks) = 1
            /\ c.hunks[1].ops = << <<"add", <<"b", NL>> >> >>

\* C22 witness: a delete of a line that begins with "-" and an add give two
\* ops in the order of the lines
C22_WitnessOrder ==
    \E i \in Calls({"_parse_unified_diff"}) :
        LET c == log[i]
        IN  /\ c.diff = HeaderText(<<2, 0, 3, Omitted>>)
                          \o <<NL, "-", "-", "a", NL, "+", "b", NL>>
            /\ c.hunks[1].ops = << <<"delete", <<"-", "a", NL>> >>,
                                   <<"add", <<"b", NL>> >> >>

\* C22 witness: a line that is only "\n" gives a context op, a line that is
\* "\r\n" gives none
C22_WitnessBlank ==
    \E i \in Calls({"_parse_unified_diff"}) :
        LET c == log[i]
        IN  /\ c.diff = HeaderText(<<2, 0, 3, Omitted>>)
                          \o <<NL, NL, CR, NL>>
            /\ Len(c.hunks[1].ops) = 1
            /\ c.hunks[1].ops[1][1] = "context"

\* C23: for a hunk body line that begins with a blank, the context op
\* recorded holds the diff line as written, the blank included.
C23_ContextTextAsWritten ==
    \A i \in Calls({"_parse_unified_diff"}) :
        LET c == log[i]
            dl == SplitLines(c.diff)
        IN  \A j \in DOMAIN c.hunks :
               LET lines_ == Classified(Unskipped(BodyOf(dl, j)))
                   ops == c.hunks[j].ops
               IN  \A k \in DOMAIN ops :
                      (k <= Len(lines_) /\ lines_[k][1] = " ")
                          => ops[k] = <<"context", lines_[k]>>

\* what the code records for such a line: the line without its blank
C23_ContextTextWithoutBlank ==
    \A i \in Calls({"_parse_unified_diff"}) :
        LET c == log[i]
            dl == SplitLines(c.diff)
        IN  \A j \in DOMAIN c.hunks :
               LET lines_ == Classified(Unskipped(BodyOf(dl, j)))
                   ops == c.hunks[j].ops
               IN  \A k \in DOMAIN ops :
                      (k <= Len(lines_) /\ lines_[k][1] = " ")
                          => ops[k] = <<"context", Tail(lines_[k])>>


----------------------------------------------------------------------------
(* C24: the path sandbox                                                   *)

\* the calls of the edit operations made under a configuration
SandboxCalls == { log[i] : i \in { j \in DOMAIN log : log[j].op \in EditOps } }

\* path is root or lies below it: some number of names added to root
Descends(path, root) ==
    \E n \in 0..Len(path) : SubSeq(path, 1, n) = root

\* the path the call's file_path resolves to lies inside the sandbox
InsideSandbox(c) ==
    IF c.config.allowed_paths = {}
    THEN Descends(c.resolved, c.config.project_root)
    ELSE \E allowed \in c.config.allowed_paths : Descends(c.resolved, allowed)

\* the call raised the sandbox's ValueError
Refused(c) ==
    c.status = "ValueError" /\ c.message = "outside allowed boundaries"

C24_WitnessAllowedOutside ==
    \E c \in SandboxCalls :
        /\ c.config.allowed_paths = {<<"out">>}
        /\ c.config.project_root = <<"proj">>
        /\ c.resolved = <<"out", "f">>
        /\ c.status = "ok"
        /\ files # c.files_before

\* a file inside the project root refused because allowed_paths is set
C24_WitnessRootNotAllowed ==
    \E c \in SandboxCalls :
        /\ c.config.allowed_paths = {<<"proj", "sub">>}
        /\ c.resolved = <<"proj", "f">>
        /\ Refused(c)

----------------------------------------------------------------------------
(* C25, C26: concurrent callers                                            *)

\* the caller has chosen its file and no other caller has chosen the same
OwnFile(i) ==
    /\ procs[i].pc # "ready"
    /\ \A j \in Callers \ {i} :
          procs[j].pc # "ready" => procs[j].resolved # procs[i].resolved

\* what the caller's operation does when it runs alone on the file as it
\* was at the start
Alone(i) ==
    EditResults(procs[i].op, Mark(i), InitialFiles[procs[i].resolved])

\* the caller has got past the sandbox and the exists() test and is done
Finished(i) ==
    procs[i].pc = "done" /\ procs[i].status \in {"ok", "ValueError"}
                         /\ "read" \in DOMAIN procs[i]

\* C25: under every interleaving of two operations on different files, each
\* file ends with the content its operation gives when run alone (and the
\* operation ends the way it does alone).
C25_DifferentFilesDoNotInterfere ==
    \A i \in Callers :
        Finished(i) /\ OwnFile(i) =>
            \E r \in Alone(i) :
                /\ r.ok <=> procs[i].status = "ok"
                /\ files[procs[i].resolved] =
                      IF r.ok THEN r.content
                      ELSE InitialFiles[procs[i].resolved]

\* both callers finished with success on different files, each file edited
C25_Witness ==
    /\ \A i \in Callers : Finished(i) /\ procs[i].status = "ok"
    /\ procs[1].resolved # procs[2].resolved
    /\ procs[1].op = "search_replace" /\ procs[2].op = "apply_diff"
    /\ files[procs[1].resolved] = <<"b", NL>>
    /\ files[procs[2].resolved] = <<"c", NL>>

\* C26: the operations read the whole file, compute the new content from
\* what they read and write it whole, with no test that the file still
\* holds what was read: the open for writing empties the file and the
\* write stores the content computed at the read, whatever the file holds
\* by then.
C26_UnguardedReadModifyWrite ==
    [][\A i \in Callers :
          /\ procs[i].pc = "writing" /\ procs'[i].pc = "flushing" =>
                files'[procs[i].resolved] = <<>>
          /\ procs[i].pc = "flushing" /\ procs'[i].pc = "done" =>
                /\ procs'[i].status = "ok"
                /\ files'[procs[i].resolved] = procs[i].new_content
                /\ \E r \in EditResults(procs[i].op, Mark(i), procs[i].read) :
                      r.ok /\ r.content = procs[i].new_content]_vars

\* the content after the callers in ord ran one after the other on bytes
RECURSIVE Serial(_, _)
Serial(ord, bytes) ==
    IF ord = <<>> THEN {bytes}
    ELSE UNION { IF r.ok THEN Serial(Tail(ord), r.content) ELSE {} :
                 r \in EditResults(procs[Head(ord)].op, Mark(Head(ord)), bytes) }

\* search_replace and insert_at_line on the same file, both read before
\* either wrote, both returned success: the file holds the edit of the
\* second writer alone, which neither order of the two gives
C26_Witness ==
    /\ \A i \in Callers : Finished(i) /\ procs[i].status = "ok"
    /\ procs[1].resolved = procs[2].resolved
    /\ procs[1].op = "search_replace" /\ procs[2].op = "insert_at_line"
    /\ procs[1].read = InitialFiles[procs[1].resolved]
    /\ procs[2].read = InitialFiles[procs[2].resolved]
    /\ LET now == files[procs[1].resolved]
           start == InitialFiles[procs[1].resolved]
       IN  /\ now \in {r.content : r \in Alone(2)}
           /\ now \notin Serial(<<1, 2>>, start) \cup Serial(<<2, 1>>, start)

\* the same under two names of the one file
C26_WitnessTwoNames ==
    /\ C26_Witness
    /\ procs[1].file_path # procs[2].file_path

\* a caller read the file between the other's open for writing and its
\* write, and returned success for an edit of the empty file
C26_WitnessReadOfEmptiedFile ==
    \E i \in Callers :
        /\ Finished(i) /\ procs[i].status = "ok"
        /\ procs[i].read = <<>>
        /\ InitialFiles[procs[i].resolved] # <<>>

----------------------------------------------------------------------------
(* C27: the agent's loop                                                   *)

\* the plan calls and the execute calls forward has made, in order
CallsOf(fn) == SelectSeq(agent.calls, LAMBDA c : c.fn = fn)

\* the text of an execution response: the str itself, or the result of the
\* Prediction
ResultText(r) == IF r.type = "str" THEN r.text ELSE r.result

\* the execution response is a question: its text, white space aside,
\* starts with "QUESTION:"
AsksQuestion(r) == StartsWith(Strip(ResultText(r)), QuestionMark)

\* the question asked: the text after the marker
QuestionAsked(r) == Strip(PySliceFrom(Strip(ResultText(r)), Len(QuestionMark)))

\* rounds are a plan call followed by an execute call on the plan it gave,
\* at most max_iterations of them
RoundsBounded ==
    LET plans == CallsOf("plan")
        execs == CallsOf("execute")
    IN  /\ Len(plans) <= agent.max_iterations
        /\ Len(execs) <= Len(plans) /\ Len(plans) <= Len(execs) + 1
        /\ \A k \in DOMAIN agent.calls :
              agent.calls[k].fn = (IF k % 2 = 1 THEN "plan" ELSE "execute")
        /\ \A k \in DOMAIN execs : execs[k].plan = plans[k].ret

\* each plan call after the first gets the question of the execution
\* response before it and the plan of the plan call before it
QuestionsReachThePlanner ==
    LET plans == CallsOf("plan")
        execs == CallsOf("execute")
    IN  \A k \in DOMAIN plans :
           IF k = 1
           THEN plans[k].current_plan = "" /\ plans[k].developer_question = <<>>
           ELSE /\ AsksQuestion(execs[k - 1].ret)
                /\ plans[k].developer_question = QuestionAsked(execs[k - 1].ret)
                /\ plans[k].current_plan = plans[k - 1].ret

\* what forward returned is the first execution response that asks no
\* question, or the message when all max_iterations responses asked one
ReturnsFirstAnswer ==
    LET execs == CallsOf("execute")
        answers == {k \in DOMAIN execs : ~AsksQuestion(execs[k].ret)}
    IN  agent.pc = "done" =>
           IF answers # {}
           THEN /\ Len(execs) \in answers
                /\ answers = {Len(execs)}
                /\ agent.returned = <<execs[Len(execs)].ret>>
           ELSE /\ Len(execs) = agent.max_iterations
                /\ agent.returned =
                      <<Str(MaxIterationsMessage(agent.max_iterations,
                                                 agent.current_plan))>>

\* C27: forward runs at most max_iterations plan-then-execute rounds; it
\* returns the first execution response that is no question; after one
\* that is a question the extracted question and the latest plan go to the
\* next plan call; when every response is a question it returns the
\* "Max iterations" message.
C27_AgentLoop ==
    /\ RoundsBounded
    /\ QuestionsReachThePlanner
    /\ ReturnsFirstAnswer

\* the same for an execute module that returns its result as a str
C27_AgentLoopOverStrings ==
    (\A k \in DOMAIN agent.calls :
        agent.calls[k].fn = "execute" => agent.calls[k].ret.type = "str")
    => C27_AgentLoop

\* forward has returned the Prediction of a question after one round, with
\* rounds left
C27_QuestionNotSeen ==
    /\ agent.pc = "done"
    /\ agent.max_iterations > 1
    /\ Len(CallsOf("execute")) = 1
    /\ agent.returned = <<Prediction(AskQuestion(<<"q">>))>>

\* two questions in str responses, then an answer: three rounds
C27_ThreeRounds ==
    /\ agent.pc = "done"
    /\ Len(CallsOf("plan")) = 3
    /\ CallsOf("plan")[2].developer_question = <<"q">>
    /\ CallsOf("plan")[3].developer_question = <<"r">>
    /\ agent.returned = <<Str(<<"o", "k">>)>>

\* every response a question: the message
C27_RanOut ==
    /\ agent.pc = "done"
    /\ agent.max_iterations = MaxIterations
    /\ Len(CallsOf("execute")) = MaxIterations
    /\ agent.returned # <<>> /\ agent.returned[1].type = "str"
    /\ agent.returned[1].text[1] = "Max iterations ("

\* forward terminates
C27_Terminates == <>(agent.pc = "done")

----------------------------------------------------------------------------
(* C28, C29: the shell tools and the backends' lifecycle                   *)

\* the backends that are running
RunningBackends == {b \in DOMAIN shell.backends : IsRunning(shell, b)}

\* the calls that go through _get_shell_backend
ShellToolCalls == {"execute_bash", "reset_shell_session", "get_shell_info"}

\* C28: after close_shell() returns, _current_backend is None and no
\* backend obtained through the shell tools is running, whatever calls and
\* configuration changes came before; the shell tool call after it runs on
\* a backend made in that call.
C28_CloseShellClosesTheSession ==
    /\ shell.last.op = "close_shell" =>
          shell.current_backend = 0 /\ RunningBackends = {}
    /\ shell.last.op \in ShellToolCalls /\ shell.last.after = "close_shell"
          /\ ~shell.last.raised =>
             shell.current_backend > shell.last.backends_before

\* the same with shell_backend left as it was since the backend was made
C28_CloseShellSameBackendKind ==
    (\A b \in DOMAIN shell.backends :
        shell.backends[b].kind = GetConfig.shell_backend)
    => C28_CloseShellClosesTheSession

\* close_shell has returned and the local backend is running still
C28_LeftRunning ==
    /\ shell.last.op = "close_shell"
    /\ shell.current_backend = 0
    /\ config.shell_backend = "docker"
    /\ \E b \in RunningBackends : shell.backends[b].kind = "local"

\* close_shell has closed the running backend
C28_Closed ==
    /\ shell.last.op = "close_shell"
    /\ shell.last.was_running # {}
    /\ RunningBackends = {}

\* C29: after any start, stop, run and reset calls _started implies that
\* _deployment and _runtime are set; start on a running backend creates no
\* second deployment; stop leaves is_running() false; run on a stopped
\* backend starts it first and reset leaves it running, when the
\* deployment starts without error.
C29_BackendLifecycle ==
    LET b == shell.backends[1]
        last == shell.last
        made == Len(shell.deployments) - last.deployments_before
    IN  /\ b.started => b.deployment # 0 /\ b.runtime = b.deployment
        /\ last.op = "start" /\ 1 \in last.was_running =>
              made = 0 /\ IsRunning(shell, 1)
        /\ last.op = "stop" => ~IsRunning(shell, 1)
        /\ last.op = "run" /\ 1 \notin last.was_running /\ ~last.raised =>
              made = 1 /\ IsRunning(shell, 1)
        /\ last.op = "run" /\ 1 \in last.was_running => made = 0
        /\ last.op = "reset" /\ ~last.raised =>
              made = 1 /\ IsRunning(shell, 1)
                       /\ shell.deployments[b.deployment] = "running"

\* run on a stopped backend has started it
C29_Witness ==
    /\ shell.last.op = "run" /\ shell.last.after = "stop"
    /\ ~shell.last.raised
    /\ IsRunning(shell, 1)
    /\ shell.backends[1].kind = "docker"

\* a start that failed has left a deployment without a session, the
\* backend not running
C29_WitnessFailedStart ==
    /\ shell.last.op = "start" /\ shell.last.raised
    /\ shell.backends[1].deployment # 0
    /\ ~shell.backends[1].started

\* start on a running backend
C29_WitnessStartTwice ==
    /\ shell.last.op = "start" /\ 1 \in shell.last.was_running
    /\ Len(shell.deployments) = 1

\* reset of a running local backend
C29_WitnessReset ==
    /\ shell.last.op = "reset" /\ 1 \in shell.last.was_running
    /\ ~shell.last.raised
    /\ shell.backends[1].kind = "local"
    /\ shell.backends[1].deployment = 2

----------------------------------------------------------------------------
(* C30: the line structure                                                 *)

\* the characters that end a line
LineEnds == {NL, CR, FF}

\* only the last line of the list may lack its line terminator
OnlyLastLineOpen(ls) ==
    \A k \in 1..(Len(ls) - 1) : ls[k] # <<>> /\ ls[k][Len(ls[k])] \in LineEnds

\* the _apply_hunk calls that returned
HunkCalls ==
    { log[i] : i \in { j \in DOMAIN log :
                         log[j].op = "_apply_hunk" /\ log[j].raised = "" } }

\* C30: when only the last line of the file may lack a line terminator the
\* same holds for the lines apply_diff writes, so that every added line is
\* a line of its own in the written text, never joined onto the line
\* before it.
C30_LineStructureKept ==
    \A c \in HunkCalls :
        OnlyLastLineOpen(c.lines) =>
            /\ OnlyLastLineOpen(c.result)
            /\ SplitLines(Join(c.result)) = c.result

\* the same for the files that end with a line terminator
C30_LineStructureOfClosedFiles ==
    \A c \in HunkCalls :
        (c.lines # <<>> => EndsWithNL(c.lines[Len(c.lines)]))
          /\ c.hunk.old_start >= 1 =>
            /\ OnlyLastLineOpen(c.result)
            /\ SplitLines(Join(c.result)) = c.result

\* a line added after the last line of a file that does not end with a
\* line terminator: written onto the end of that line
C30_JoinedOntoLastLine ==
    \E c \in HunkCalls :
        /\ c.lines = << <<"a", NL>>, <<"b">> >>
        /\ c.hunk.old_start = 3
        /\ c.hunk.ops = << <<"add", <<"c", NL>> >> >>
        /\ c.result = << <<"a", NL>>, <<"b">>, <<"c", NL>> >>
        /\ SplitLines(Join(c.result)) = << <<"a", NL>>, <<"b", "c", NL>> >>

=============================================================================
